---- MODULE Spec2Model ----
(***************************************************************************)
(* Model of the Quick Search extension.                                     *)
(*                                                                         *)
(* Scope crawler (background service worker): scope derivation, the        *)
(* bounded crawl session with its worker loop, the tab-update listener and *)
(* the CRAWL_START / CRAWL_STATUS message handlers (Spec, FairSpec).       *)
(*                                                                         *)
(* Page Indexer (content script of a frame): buildIndex, scoring,          *)
(* getSuggestions, scrollToId and the mutation observer (ScoreSpec,        *)
(* IxSpec, JumpSpec), and the popup that merges the answers of the frames  *)
(* of a tab (TabSpec).  content.js holds a second, older copy of the       *)
(* indexer (lines 263-455) that reads and writes the same marker           *)
(* attribute; the model follows the first copy, whose listener is          *)
(* registered first and answers the messages.                              *)
(*                                                                         *)
(* Strings that the code inspects character by character (path names,     *)
(* scope keys) are sequences of one-character strings.  Every URL has the  *)
(* scheme https, so an origin is identified by its host.                   *)
(***************************************************************************)
EXTENDS Integers, Sequences, FiniteSets, TLC

(***************************************************************************)
(* Bounds of the model.                                                    *)
(***************************************************************************)
\* sessions ever started by start requests and tab updates
MaxSessions == 3
\* sessions ever started in the behaviours checked for termination
MaxFairSessions == 2
\* value given to MAX_PAGES_PER_CRAWL (60 in the source), scaled so that
\* the URL universe below can reach it
PageCap == 2

(***************************************************************************)
(* Program constants.                                                      *)
(***************************************************************************)
MAX_PAGES_PER_CRAWL == PageCap
MAX_CONCURRENT == 4
DispatchLimit == 6

Min(a, b) == IF a < b THEN a ELSE b

(***************************************************************************)
(* URLs.                                                                   *)
(***************************************************************************)
Url(h, p) == [host |-> h, path |-> p]
NoUrl == Url("", <<>>)

RootUrl == Url("h1", <<"/">>)
DirUrl == Url("h1", <<"/", "a">>)
PageX == Url("h1", <<"/", "a", "/", "x">>)
OtherDir == Url("h1", <<"/", "a", "b", "/", "x">>)
OtherHost == Url("h2", <<"/", "a", "/", "x">>)

\* every URL that a tab, a start request or an anchor can name
Urls == {RootUrl, DirUrl, PageX, OtherDir, OtherHost}
\* URLs of the tab, i.e. the start URLs of crawl sessions
SeedUrls == {RootUrl, DirUrl}

StartsWith(s, prefix) ==
    /\ Len(prefix) <= Len(s)
    /\ SubSeq(s, 1, Len(prefix)) = prefix

\* pathname.split('/').filter(Boolean): the non-empty segments, in order
RECURSIVE SplitPath(_, _)
SplitPath(p, cur) ==
    IF p = <<>>
    THEN IF cur = <<>> THEN <<>> ELSE <<cur>>
    ELSE IF Head(p) = "/"
         THEN IF cur = <<>>
              THEN SplitPath(Tail(p), <<>>)
              ELSE <<cur>> \o SplitPath(Tail(p), <<>>)
         ELSE SplitPath(Tail(p), Append(cur, Head(p)))

\* new URL(raw) does not throw: the text names a host
parses(raw) == raw.host # ""
\* null, as a scope and as a scope key
NoScope == [origin |-> "", host |-> "", scopePath |-> <<>>]
NullKey == <<>>

scopeFromUrl(raw) ==
    LET parts == SplitPath(raw.path, <<>>)
        scopePath == IF Len(parts) > 0
                     THEN <<"/">> \o parts[1] \o <<"/">>
                     ELSE <<"/">>
    IN IF parses(raw)
       THEN [origin |-> raw.host, host |-> raw.host, scopePath |-> scopePath]
       ELSE NoScope

\* a scope key made of the scope path alone
makeScopeKeyPathOnly(url) == scopeFromUrl(url).scopePath

makeScopeKey(url) ==
    LET s == scopeFromUrl(url)
    IN IF s = NoScope THEN NullKey ELSE <<s.host, "|">> \o s.scopePath

\* computeScopeKey of the popup, keyed by the whole path name
computeScopeKeyWholePath(url) ==
    IF parses(url) THEN <<url.host, "|">> \o url.path ELSE NullKey

\* computeScopeKey of the popup (part_001)
computeScopeKey(url) ==
    IF parses(url)
    THEN LET parts == SplitPath(url.path, <<>>)
         IN <<url.host, "|">>
               \o (IF Len(parts) > 0
                   THEN <<"/">> \o parts[1] \o <<"/">>
                   ELSE <<"/">>)
    ELSE NullKey

inScope(url, scope) ==
    /\ url.host = scope.host
    /\ StartsWith(url.path, scope.scopePath)

ScopeKeys == {makeScopeKey(u) : u \in Urls}
\* scope keys the popup asks about: those of the tab's URLs
StatusKeys == {makeScopeKey(u) : u \in SeedUrls}

(***************************************************************************)
(* Fetch outcomes.                                                         *)
(***************************************************************************)
Response(k, ok, ct, tag) ==
    [kind |-> k, ok |-> ok, ctypeHtml |-> ct, htmlTag |-> tag]

\* fetch() rejects, the 12 s timer wins the race, or a response arrives
Responses ==
    {Response("error", FALSE, FALSE, FALSE),
     Response("timeout", FALSE, FALSE, FALSE),
     Response("response", FALSE, TRUE, TRUE),
     Response("response", TRUE, FALSE, FALSE),
     Response("response", TRUE, TRUE, FALSE),
     Response("response", TRUE, FALSE, TRUE)}

\* the outcomes called failures: network error, timeout, non-2xx status,
\* or a body that is not HTML
Failed(res) ==
    \/ res.kind \in {"error", "timeout"}
    \/ ~res.ok
    \/ (~res.ctypeHtml /\ ~res.htmlTag)

\* fetchPage without the test of the response status
fetchPageAnyStatus(res) ==
    /\ res.kind = "response"
    /\ (res.ctypeHtml \/ res.htmlTag)

\* the condition under which fetchPage returns a page instead of null
fetchPage(res) ==
    /\ res.kind = "response"
    /\ res.ok
    /\ (res.ctypeHtml \/ res.htmlTag)

\* the anchor lists of the documents the servers return, already resolved
\* to absolute URLs: no anchor, a repeated anchor, two pages of one
\* directory, and anchors that leave the directory or the host
LinkLists ==
    {<<>>,
     <<PageX, PageX>>,
     <<DirUrl, PageX>>,
     <<OtherDir, OtherHost>>}

(***************************************************************************)
(* State.                                                                  *)
(***************************************************************************)
VARIABLES
    pageIndex,      \* scopeKey -> set of indexed URLs (keys of the inner Map)
    currentCrawl,   \* the tracked handle, or NoCrawl for null
    sessions,       \* every crawl() call so far, in the order of the calls
    microtasks,     \* then-callbacks that are ready to run: the scope key
                    \* they hold and the session whose promise they follow
    htmlFetched,    \* URLs for which some fetch got a 2xx HTML-shaped answer
    event           \* the handler that ran last, with its answer

vars == <<pageIndex, currentCrawl, sessions, microtasks, htmlFetched, event>>

\* State of the content scripts (one Page Indexer per frame of the tab), of
\* the popup that aggregates their answers, and of the scoring probe.  A
\* frame is a number; every per-frame variable is a sequence over the frames.
VARIABLES
    location,       \* the location of each frame (location.href)
    document,       \* the indexable elements of each frame, in document order
    isIndexed,      \* the indexer's flag: the index is not stale
    frameIndex,     \* the indexer's entries (index in the source)
    counter,        \* the indexer's identifier counter
    loaded,         \* the start-up buildIndex of the frame has run
    timers,         \* pending highlight-removal timers (element uids)
    edits,          \* history: number of changes made by the page
    ixEvent,        \* the last step of a content script and its answer
    popup,          \* the popup's merged list of local suggestions
    search,         \* the popup's searches: lastQuery, crawlPollTimer and
                    \* the runSearch calls and crawl polls that are waiting
    probe           \* inputs and result of a scoring probe

pageVars == <<location, document, isIndexed, frameIndex, counter, loaded,
              timers, edits, ixEvent, popup, search>>
allVars == <<vars, pageVars, probe>>

NoIxEvent == [type |-> "none", frame |-> 0]
NoProbe == [applied |-> FALSE]
\* the popup has not searched
NoSearch == [opened |-> FALSE]

\* no tab page is open
NoPages ==
    /\ location = <<>>
    /\ document = <<>>
    /\ isIndexed = <<>>
    /\ frameIndex = <<>>
    /\ counter = <<>>
    /\ loaded = <<>>
    /\ timers = <<>>
    /\ edits = 0
    /\ ixEvent = NoIxEvent
    /\ popup = <<>>
    /\ search = NoSearch

NoCrawl == [scopeKey |-> <<>>, sid |-> 0]
Workers == 1..Min(MAX_CONCURRENT, DispatchLimit)

Reply(ok, running, started, pages) ==
    [ok |-> ok, running |-> running, started |-> started, pages |-> pages]
NoReply == Reply(FALSE, FALSE, FALSE, 0)

Event(t, key, sid, reply) ==
    [type |-> t, key |-> key, sid |-> sid, reply |-> reply]

\* index of a scope: the inner Map's key set, empty when the scope has none
IndexOf(pi, key) == IF key \in DOMAIN pi THEN pi[key] ELSE {}

(***************************************************************************)
(* crawl(): one session.                                                   *)
(***************************************************************************)
\* maybeDone without the test that no fetch is in flight
maybeDoneIgnoringActive(s) ==
    IF Len(s.queue) = 0 \/ s.pagesThisSession >= MAX_PAGES_PER_CRAWL
    THEN [s EXCEPT !.resolved = TRUE]
    ELSE s

maybeDone(s) ==
    IF (Len(s.queue) = 0 /\ s.active = 0)
       \/ s.pagesThisSession >= MAX_PAGES_PER_CRAWL
    THEN [s EXCEPT !.resolved = TRUE]
    ELSE s

\* worker whose loop does not test the page cap
RECURSIVE workerNoCap(_, _, _)
workerNoCap(s, index, w) ==
    IF Len(s.queue) > 0
    THEN LET url == Head(s.queue)
             s1 == [s EXCEPT !.queue = Tail(@)]
         IN IF url \in s1.visited \/ url \in index
            THEN workerNoCap(s1, index, w)
            ELSE [s1 EXCEPT !.visited = @ \cup {url},
                            !.active = @ + 1,
                            !.fetching[w] = url,
                            !.refetched = @ \/ url \in s1.fetched,
                            !.fetched = @ \cup {url}]
    ELSE maybeDone([s EXCEPT !.fetching[w] = NoUrl])

\* worker that does not consult the visited set when it dequeues
RECURSIVE workerNoVisited(_, _, _)
workerNoVisited(s, index, w) ==
    IF Len(s.queue) > 0 /\ s.pagesThisSession < MAX_PAGES_PER_CRAWL
    THEN LET url == Head(s.queue)
             s1 == [s EXCEPT !.queue = Tail(@)]
         IN IF url \in index
            THEN workerNoVisited(s1, index, w)
            ELSE [s1 EXCEPT !.visited = @ \cup {url},
                            !.active = @ + 1,
                            !.fetching[w] = url,
                            !.refetched = @ \/ url \in s1.fetched,
                            !.fetched = @ \cup {url}]
    ELSE maybeDone([s EXCEPT !.fetching[w] = NoUrl])

\* worker that does not consult the scope's page map when it dequeues
RECURSIVE workerNoIndex(_, _, _)
workerNoIndex(s, index, w) ==
    IF Len(s.queue) > 0 /\ s.pagesThisSession < MAX_PAGES_PER_CRAWL
    THEN LET url == Head(s.queue)
             s1 == [s EXCEPT !.queue = Tail(@)]
         IN IF url \in s1.visited
            THEN workerNoIndex(s1, index, w)
            ELSE [s1 EXCEPT !.visited = @ \cup {url},
                            !.active = @ + 1,
                            !.fetching[w] = url,
                            !.refetched = @ \/ url \in s1.fetched,
                            !.fetched = @ \cup {url}]
    ELSE maybeDone([s EXCEPT !.fetching[w] = NoUrl])

\* the loop of worker w from its head up to the next await or its return
RECURSIVE worker(_, _, _)
worker(s, index, w) ==
    IF Len(s.queue) > 0 /\ s.pagesThisSession < MAX_PAGES_PER_CRAWL
    THEN LET url == Head(s.queue)
             s1 == [s EXCEPT !.queue = Tail(@)]
         IN IF url \in s1.visited \/ url \in index
            THEN worker(s1, index, w)
            ELSE [s1 EXCEPT !.visited = @ \cup {url},
                            !.active = @ + 1,
                            !.fetching[w] = url,
                            !.refetched = @ \/ url \in s1.fetched,
                            !.fetched = @ \cup {url}]
    ELSE maybeDone([s EXCEPT !.fetching[w] = NoUrl])

\* links of a fetched page that pass the enqueue test, in page order
RECURSIVE enqueueLinks(_, _, _)
enqueueLinks(links, s, index) ==
    IF links = <<>>
    THEN s
    ELSE LET link == Head(links)
             s1 == IF inScope(link, s.scope)
                      /\ link \notin s.visited
                      /\ link \notin index
                   THEN [s EXCEPT !.queue = Append(@, link)]
                   ELSE s
         IN enqueueLinks(Tail(links), s1, index)

\* for (i = 0; i < Math.min(MAX_CONCURRENT, 6); i++) worker()
RECURSIVE dispatch(_, _, _)
dispatch(s, index, w) ==
    IF w > Min(MAX_CONCURRENT, DispatchLimit)
    THEN s
    ELSE dispatch(worker(s, index, w), index, w + 1)

\* a session whose queue holds a second URL when the workers are started
crawlTwoQueued(startUrl, hasThen, pi) ==
    LET scope == scopeFromUrl(startUrl)
        s0 == [seed |-> startUrl,
               scope |-> scope,
               scopeKey |-> makeScopeKey(startUrl),
               queue |-> <<startUrl, PageX>>,
               visited |-> {},
               active |-> 0,
               pagesThisSession |-> 0,
               fetching |-> [w \in Workers |-> NoUrl],
               fetched |-> {},
               refetched |-> FALSE,
               resolved |-> FALSE,
               hasThen |-> hasThen]
    IN dispatch(s0, IndexOf(pi, makeScopeKey(startUrl)), 1)

\* the session created by crawl(startUrl), after the synchronous dispatch
crawl(startUrl, hasThen, pi) ==
    LET scope == scopeFromUrl(startUrl)
        s0 == [seed |-> startUrl,
               scope |-> scope,
               scopeKey |-> makeScopeKey(startUrl),
               queue |-> <<startUrl>>,
               visited |-> {},
               active |-> 0,
               pagesThisSession |-> 0,
               fetching |-> [w \in Workers |-> NoUrl],
               fetched |-> {},
               refetched |-> FALSE,
               resolved |-> FALSE,
               hasThen |-> hasThen]
    IN dispatch(s0, IndexOf(pi, makeScopeKey(startUrl)), 1)

\* pageIndex.set(scopeKey, new Map()), whether the scope has a Map or not
withScopeFresh(pi, key) ==
    [k \in DOMAIN pi \cup {key} |-> IF k = key THEN {} ELSE pi[k]]

\* if (!pageIndex.has(scopeKey)) pageIndex.set(scopeKey, new Map())
withScope(pi, key) ==
    IF key \in DOMAIN pi
    THEN pi
    ELSE [k \in DOMAIN pi \cup {key} |-> IF k = key THEN {} ELSE pi[k]]

\* the then-callback of session sid, which captured scopeKey
Callback(scopeKey, sid) == [scopeKey |-> scopeKey, sid |-> sid]

\* then-callbacks made ready by the sessions of ss that are resolved; the
\* sessions are numbered from sid on
RECURSIVE readyCallbacks(_, _)
readyCallbacks(ss, sid) ==
    IF ss = <<>>
    THEN <<>>
    ELSE (IF Head(ss).resolved /\ Head(ss).hasThen
          THEN <<Callback(Head(ss).scopeKey, sid)>>
          ELSE <<>>) \o readyCallbacks(Tail(ss), sid + 1)

Active(s) == ~s.resolved
InFlight(s) == {w \in Workers : s.fetching[w] # NoUrl}

(***************************************************************************)
(* Initial state: the service worker has just been loaded.                 *)
(***************************************************************************)
ServiceWorkerLoaded ==
    /\ pageIndex = <<>>
    /\ currentCrawl = NoCrawl
    /\ sessions = <<>>
    /\ microtasks = <<>>
    /\ htmlFetched = {}
    /\ event = Event("init", <<>>, 0, NoReply)

Init ==
    /\ ServiceWorkerLoaded
    /\ NoPages
    /\ probe = NoProbe

(***************************************************************************)
(* chrome.tabs.onUpdated listener.                                         *)
(***************************************************************************)
TabStatuses == {"loading", "complete"}

\* an auto-start test that is always true
autoStartAlways(cc, newScopeKey) == TRUE

\* newScopeKey && (!currentCrawl || currentCrawl.scopeKey !== newScopeKey)
autoStartNeeded(cc, newScopeKey) ==
    cc = NoCrawl \/ cc.scopeKey # newScopeKey

TabUpdated(status, url) ==
    /\ microtasks = <<>>
    /\ LET newScopeKey == makeScopeKey(url)
           cleared == IF currentCrawl # NoCrawl
                         /\ currentCrawl.scopeKey # newScopeKey
                      THEN NoCrawl
                      ELSE currentCrawl
           pi1 == withScope(pageIndex, newScopeKey)
           first == crawl(url, TRUE, pi1)
           second == crawl(url, FALSE, pi1)
       IN IF status = "complete"
          THEN IF autoStartNeeded(cleared, newScopeKey)
               THEN /\ Len(sessions) + 2 <= MaxSessions
                    /\ pageIndex' = pi1
                    /\ sessions' = sessions \o <<first, second>>
                    /\ currentCrawl' = [scopeKey |-> newScopeKey,
                                        sid |-> Len(sessions) + 2]
                    /\ microtasks' = readyCallbacks(<<first, second>>,
                                                    Len(sessions) + 1)
               ELSE /\ currentCrawl' = cleared
                    /\ UNCHANGED <<pageIndex, sessions, microtasks>>
          ELSE UNCHANGED <<pageIndex, sessions, microtasks, currentCrawl>>
    /\ event' = Event(IF status = "complete" THEN "TabComplete" ELSE "TabOther",
                      makeScopeKey(url), 0, NoReply)
    /\ UNCHANGED htmlFetched
    /\ UNCHANGED <<pageVars, probe>>

(***************************************************************************)
(* chrome.runtime.onMessage listener.                                      *)
(***************************************************************************)
\* a test of the tracked handle that ignores its scope key
alreadyRunningAnyScope(cc, scopeKey) == cc # NoCrawl

\* currentCrawl && currentCrawl.scopeKey === scopeKey
alreadyRunning(cc, scopeKey) ==
    cc # NoCrawl /\ cc.scopeKey = scopeKey

CrawlStart(startUrl) ==
    /\ microtasks = <<>>
    /\ LET scopeKey == makeScopeKey(startUrl)
           pi1 == withScope(pageIndex, scopeKey)
           s == crawl(startUrl, TRUE, pi1)
       IN IF alreadyRunning(currentCrawl, scopeKey)
          THEN /\ event' = Event("CRAWL_START", scopeKey, 0,
                                 Reply(TRUE, TRUE, FALSE, 0))
               /\ UNCHANGED <<pageIndex, sessions, microtasks, currentCrawl>>
          ELSE /\ Len(sessions) + 1 <= MaxSessions
               /\ pageIndex' = pi1
               /\ sessions' = Append(sessions, s)
               /\ currentCrawl' = [scopeKey |-> scopeKey,
                                   sid |-> Len(sessions) + 1]
               /\ microtasks' = readyCallbacks(<<s>>, Len(sessions) + 1)
               /\ event' = Event("CRAWL_START", scopeKey, 0,
                                 Reply(TRUE, FALSE, TRUE, 0))
    /\ UNCHANGED htmlFetched
    /\ UNCHANGED <<pageVars, probe>>

CrawlStatus(scopeKey) ==
    /\ microtasks = <<>>
    /\ LET idx == IndexOf(pageIndex, scopeKey)
           running == currentCrawl # NoCrawl
                      /\ currentCrawl.scopeKey = scopeKey
       IN event' = Event("CRAWL_STATUS", scopeKey, 0,
                         Reply(FALSE, running, FALSE, Cardinality(idx)))
    /\ UNCHANGED <<pageIndex, sessions, microtasks, currentCrawl, htmlFetched>>
    /\ UNCHANGED <<pageVars, probe>>

\* the CRAWL_SEARCH branch: it reads pageIndex.get(scopeKey) and answers.
\* Here a page map is the set of its URLs, without titles and texts, so the
\* results (crawlSearch below) are not recorded in the event.
CrawlSearch(scopeKey) ==
    /\ microtasks = <<>>
    /\ event' = Event("CRAWL_SEARCH", scopeKey, 0, NoReply)
    /\ UNCHANGED <<pageIndex, sessions, microtasks, currentCrawl, htmlFetched>>
    /\ UNCHANGED <<pageVars, probe>>

(***************************************************************************)
(* The await in worker() returns: fetchPage(url) has settled.              *)
(***************************************************************************)
FetchDone(sid, w, res, links) ==
    /\ microtasks = <<>>
    /\ sid \in 1..Len(sessions)
    /\ sessions[sid].fetching[w] # NoUrl
    /\ LET s == sessions[sid]
           url == s.fetching[w]
           page == fetchPage(res)
           pi1 == IF page
                  THEN [pageIndex EXCEPT ![s.scopeKey] = @ \cup {url}]
                  ELSE pageIndex
           index == pi1[s.scopeKey]
           s1 == IF page
                 THEN enqueueLinks(links,
                         [s EXCEPT !.pagesThisSession = @ + 1], index)
                 ELSE s
           s2 == [s1 EXCEPT !.active = @ - 1]
           s3 == worker(s2, index, w)
       IN /\ pageIndex' = pi1
          /\ sessions' = [sessions EXCEPT ![sid] = s3]
          /\ microtasks' = IF s3.resolved /\ ~s.resolved /\ s.hasThen
                           THEN <<Callback(s.scopeKey, sid)>>
                           ELSE <<>>
          /\ htmlFetched' = IF res.kind = "response" /\ res.ok
                               /\ (res.ctypeHtml \/ res.htmlTag)
                            THEN htmlFetched \cup {url}
                            ELSE htmlFetched
    /\ event' = Event(IF Failed(res) THEN "FetchFailed" ELSE "FetchAnswered",
                      sessions[sid].scopeKey, sid, NoReply)
    /\ UNCHANGED currentCrawl
    /\ UNCHANGED <<pageVars, probe>>

\* the fetch of worker w of session sid settles, with any outcome
FetchSettles(sid, w) ==
    /\ sid \in 1..Len(sessions)
    /\ sessions[sid].fetching[w] # NoUrl
    /\ \E res \in Responses :
          \E links \in (IF fetchPage(res) THEN LinkLists ELSE {<<>>}) :
             FetchDone(sid, w, res, links)

SomeFetchSettles ==
    \E sid \in 1..MaxSessions, w \in Workers : FetchSettles(sid, w)

(***************************************************************************)
(* The then-callback attached to a session's promise.                      *)
(***************************************************************************)
SessionSettled ==
    /\ microtasks # <<>>
    /\ LET scopeKey == Head(microtasks).scopeKey
       IN currentCrawl' = IF currentCrawl # NoCrawl
                             /\ currentCrawl.scopeKey = scopeKey
                          THEN NoCrawl
                          ELSE currentCrawl
    /\ microtasks' = Tail(microtasks)
    /\ event' = Event("then", Head(microtasks).scopeKey,
                       Head(microtasks).sid, NoReply)
    /\ UNCHANGED <<pageIndex, sessions, htmlFetched>>
    /\ UNCHANGED <<pageVars, probe>>

Next ==
    \/ \E status \in TabStatuses, url \in SeedUrls : TabUpdated(status, url)
    \/ \E startUrl \in SeedUrls : CrawlStart(startUrl)
    \/ \E scopeKey \in StatusKeys : CrawlStatus(scopeKey)
    \/ \E scopeKey \in StatusKeys : CrawlSearch(scopeKey)
    \/ SomeFetchSettles
    \/ SessionSettled

Spec == Init /\ [][Next]_vars

TypeOK ==
    /\ DOMAIN pageIndex \subseteq ScopeKeys
    /\ \A k \in DOMAIN pageIndex : pageIndex[k] \subseteq Urls
    /\ Len(sessions) <= MaxSessions
    /\ currentCrawl = NoCrawl \/ currentCrawl.sid \in 1..Len(sessions)

(***************************************************************************)
(* Fairness: while fetches are in flight one of them settles (each is      *)
(* raced against the 12 s timer), and a ready then-callback runs.          *)
(***************************************************************************)
\* the same steps, with fewer sessions started
FairNext == Next /\ Len(sessions') <= MaxFairSessions

FairSpec ==
    /\ Init
    /\ [][FairNext]_vars
    /\ WF_vars(SomeFetchSettles)
    /\ WF_vars(SessionSettled)

(***************************************************************************)
(* Page Indexer: the content script of a frame (content.js, the module of  *)
(* lines 1-262).  Text is a sequence of one-character strings.             *)
(***************************************************************************)
Rep(c, n) == [i \in 1..n |-> c]
SetMin(S) == CHOOSE x \in S : \A y \in S : x <= y
SetMax(S) == CHOOSE x \in S : \A y \in S : x >= y

\* U+2003 EM SPACE, the separator of getElementSearchText
EmSpace == "_"
\* the characters that the regular expression \s matches
Whitespace == {" ", "\t", "\n", EmSpace}

\* text.replace(/\s+/g, ' '): every run of whitespace becomes one space
\* (inRun tells that a run of whitespace has begun before the text): of a
\* run only the first character stays, as a space
collapseWhitespace(text, inRun) ==
    LET marked == [i \in 1..Len(text) |->
                      [char |-> IF text[i] \in Whitespace
                                THEN " " ELSE text[i],
                       kept |-> \/ text[i] \notin Whitespace
                                \/ (i = 1 /\ ~inRun)
                                \/ (i > 1 /\ text[i - 1] \notin Whitespace)]]
        kept == SelectSeq(marked, LAMBDA m : m.kept)
    IN [i \in 1..Len(kept) |-> kept[i].char]

RECURSIVE trimStart(_)
trimStart(text) ==
    IF text # <<>> /\ Head(text) \in Whitespace
    THEN trimStart(Tail(text))
    ELSE text

RECURSIVE trimEnd(_)
trimEnd(text) ==
    IF text # <<>> /\ text[Len(text)] \in Whitespace
    THEN trimEnd(SubSeq(text, 1, Len(text) - 1))
    ELSE text

\* String.prototype.trim
trim(text) == trimEnd(trimStart(text))

normalizeText(text) == trim(collapseWhitespace(text, FALSE))

UpperCase == <<"A", "B", "C", "D", "E", "F", "G", "H", "I", "J", "K", "L",
               "M", "N", "O", "P", "Q", "R", "S", "T", "U", "V", "W", "X",
               "Y", "Z">>
LowerCase == <<"a", "b", "c", "d", "e", "f", "g", "h", "i", "j", "k", "l",
               "m", "n", "o", "p", "q", "r", "s", "t", "u", "v", "w", "x",
               "y", "z">>

\* the lower-case letter of every upper-case letter
Lowered ==
    [c \in {UpperCase[k] : k \in 1..Len(UpperCase)} |->
        LowerCase[CHOOSE k \in 1..Len(UpperCase) : UpperCase[k] = c]]

\* String.prototype.toLowerCase
toLowerCase(text) ==
    [i \in 1..Len(text) |->
        IF text[i] \in DOMAIN Lowered THEN Lowered[text[i]] ELSE text[i]]

\* String.prototype.indexOf: zero-based position of the first occurrence,
\* -1 when there is none
indexFrom(text, needle, i) ==
    LET found == {k \in i..(Len(text) - Len(needle)) :
                     SubSeq(text, k + 1, k + Len(needle)) = needle}
    IN IF found = {} THEN -1 ELSE SetMin(found)

indexOf(text, needle) == indexFrom(text, needle, 0)

\* the loop of scoreItem: number of query characters matched in order
\* (the characters of the haystack are visited from left to right; the
\* visit of a haystack is that of its first half followed by that of the
\* rest)
RECURSIVE matchedInOrder(_, _, _)
matchedInOrder(haystack, queryLower, qi) ==
    IF haystack = <<>> \/ qi >= Len(queryLower)
    THEN qi
    ELSE IF Len(haystack) = 1
    THEN (IF haystack[1] = queryLower[qi + 1] THEN qi + 1 ELSE qi)
    ELSE matchedInOrder(
            SubSeq(haystack, (Len(haystack) \div 2) + 1, Len(haystack)),
            queryLower,
            matchedInOrder(SubSeq(haystack, 1, Len(haystack) \div 2),
                           queryLower, qi))

isHeadingLevel(level) == level # <<>> /\ Head(level) = "h"

\* item.searchText || item.title || ''
haystackOf(item) ==
    IF item.searchText # <<>> THEN item.searchText ELSE item.title

\* scoreItem without the bonus of headings
scoreItemNoBonus(queryLower, item) ==
    LET haystack == toLowerCase(haystackOf(item))
        idx == indexOf(haystack, queryLower)
    IN IF queryLower = <<>> THEN 1
       ELSE IF haystack = queryLower THEN 100
       ELSE IF StartsWith(haystack, queryLower) THEN 80
       ELSE IF idx >= 0 THEN 60 - Min(idx, 50)
       ELSE IF matchedInOrder(haystack, queryLower, 0) = Len(queryLower)
            THEN 30
       ELSE -1

\* scoreItem that gives 40 to a subsequence match
scoreItemSubsequence40(queryLower, item) ==
    LET base == IF isHeadingLevel(item.level) THEN 5 ELSE 0
        haystack == toLowerCase(haystackOf(item))
        idx == indexOf(haystack, queryLower)
    IN IF queryLower = <<>> THEN 1 + base
       ELSE IF haystack = queryLower THEN 100 + base
       ELSE IF StartsWith(haystack, queryLower) THEN 80 + base
       ELSE IF idx >= 0 THEN 60 - Min(idx, 50) + base
       ELSE IF matchedInOrder(haystack, queryLower, 0) = Len(queryLower)
            THEN 40 + base
       ELSE -1

\* scoreItem whose substring score is not capped at position 50
scoreItemNoCap(queryLower, item) ==
    LET base == IF isHeadingLevel(item.level) THEN 5 ELSE 0
        haystack == toLowerCase(haystackOf(item))
        idx == indexOf(haystack, queryLower)
    IN IF queryLower = <<>> THEN 1 + base
       ELSE IF haystack = queryLower THEN 100 + base
       ELSE IF StartsWith(haystack, queryLower) THEN 80 + base
       ELSE IF idx >= 0 THEN 60 - idx + base
       ELSE IF matchedInOrder(haystack, queryLower, 0) = Len(queryLower)
            THEN 30 + base
       ELSE -1

scoreItem(queryLower, item) ==
    LET base == IF isHeadingLevel(item.level) THEN 5 ELSE 0
        haystack == toLowerCase(haystackOf(item))
        idx == indexOf(haystack, queryLower)
    IN IF queryLower = <<>> THEN 1 + base
       ELSE IF haystack = queryLower THEN 100 + base
       ELSE IF StartsWith(haystack, queryLower) THEN 80 + base
       ELSE IF idx >= 0 THEN 60 - Min(idx, 50) + base
       ELSE IF matchedInOrder(haystack, queryLower, 0) = Len(queryLower)
            THEN 30 + base
       ELSE -1

(***************************************************************************)
(* Scoring probe: two items and a query are drawn, scoreItem is applied to *)
(* both.                                                                   *)
(***************************************************************************)
\* longest padding put in front of the query inside a probe text
MaxPad == 52

ProbeQueries == {<<>>, <<"a", "b">>}
ProbeLevels == {<<"h", "2">>, <<"p">>, <<"a">>}
ProbeTexts ==
    {Rep("x", n) \o <<"a", "b">> : n \in 0..MaxPad}
    \cup {<<"A", "b">>, <<"a", "b", "c">>, <<"x", "A", "B", "c">>,
          <<"a", "x", "b">>, <<"b", "a">>, <<>>}
ProbeItem(level, text) == [level |-> level, title |-> text, searchText |-> text]
ProbeItems == {ProbeItem(l, t) : l \in ProbeLevels, t \in ProbeTexts}

ProbeInit ==
    \E q \in ProbeQueries, a \in ProbeItems, b \in ProbeItems :
        probe = [applied |-> FALSE, query |-> q, a |-> a, b |-> b,
                 scoreA |-> 0, scoreB |-> 0]

ScoreItems ==
    /\ ~probe.applied
    /\ probe' = [probe EXCEPT !.applied = TRUE,
                              !.scoreA = scoreItem(probe.query, probe.a),
                              !.scoreB = scoreItem(probe.query, probe.b)]
    /\ UNCHANGED <<vars, pageVars>>

ScoreInit == ServiceWorkerLoaded /\ NoPages /\ ProbeInit
ScoreNext == ScoreItems
ScoreSpec == ScoreInit /\ [][ScoreNext]_allVars

(***************************************************************************)
(* The document of a frame: its elements in document order (the order of   *)
(* the TreeWalker).  An element has an identity (uid), a tag, its text     *)
(* content, the attributes that the indexer reads, the identifier marker   *)
(* data-ext-jump-id (<<>> when the attribute is absent) and the highlight  *)
(* class.                                                                  *)
(***************************************************************************)
Element(uid, tag, text, aria, title, href) ==
    [uid |-> uid, tag |-> tag, text |-> text, aria |-> aria, title |-> title,
     href |-> href, marker |-> <<>>, highlighted |-> FALSE]

\* 'ext-jump-'
IdPrefix == <<"e", "x", "t", "-", "j", "u", "m", "p", "-">>
DecimalDigits == <<"0", "1", "2", "3", "4", "5", "6", "7", "8", "9">>
\* the decimal digits of a natural number, as template literals print it
RECURSIVE ToDigits(_)
ToDigits(n) ==
    IF n < 10
    THEN <<DecimalDigits[n + 1]>>
    ELSE ToDigits(n \div 10) \o <<DecimalDigits[(n % 10) + 1]>>

\* generateId after counter += 1
generateId(cnt) == IdPrefix \o ToDigits(cnt)

\* ensureElementId that writes a fresh identifier on every call
ensureElementIdAlways(el, cnt) ==
    [el |-> [el EXCEPT !.marker = generateId(cnt + 1)], counter |-> cnt + 1]

ensureElementId(el, cnt) ==
    IF el.marker = <<>>
    THEN [el |-> [el EXCEPT !.marker = generateId(cnt + 1)],
          counter |-> cnt + 1]
    ELSE [el |-> el, counter |-> cnt]

\* /^h[1-6]$/.test(tag)
isHeadingElement(el) ==
    /\ Len(el.tag) = 2
    /\ el.tag[1] = "h"
    /\ el.tag[2] \in {"1", "2", "3", "4", "5", "6"}

\* acceptNode of the TreeWalker
acceptNode(el) ==
    isHeadingElement(el) \/ el.tag = <<"p">> \/ el.tag = <<"a">>

\* pieces.join('   ')
RECURSIVE joinPieces(_)
joinPieces(pieces) ==
    IF pieces = <<>> THEN <<>>
    ELSE IF Len(pieces) = 1 THEN Head(pieces)
    ELSE Head(pieces) \o <<" ", EmSpace, " ">> \o joinPieces(Tail(pieces))

\* the last non-empty segment of a path name, '' when there is none
lastSegment(pathname) ==
    LET segs == SplitPath(pathname, <<>>)
    IN IF segs = <<>> THEN <<>> ELSE segs[Len(segs)]

\* String.prototype.lastIndexOf('.'), zero-based, -1 when absent
lastIndexOfDot(text) ==
    LET dots == {i \in 1..Len(text) : text[i] = "."}
    IN IF dots = {} THEN -1 ELSE SetMax(dots) - 1

\* getElementSearchText for an anchor; basePath is the path of location.href,
\* which new URL(href, location.href) yields for an empty href
getElementSearchText(el, basePath) ==
    LET visible == trim(el.text)
        last == lastSegment(IF el.href = <<>> THEN basePath ELSE el.href)
        dot == lastIndexOfDot(last)
        pieces == (IF visible # <<>> THEN <<visible>> ELSE <<>>)
                  \o (IF el.aria # <<>> THEN <<el.aria>> ELSE <<>>)
                  \o (IF el.title # <<>> THEN <<el.title>> ELSE <<>>)
                  \o (IF el.tag = <<"a">> /\ last # <<>>
                      THEN <<last>> \o (IF dot > 0
                                        THEN <<SubSeq(last, 1, dot)>>
                                        ELSE <<>>)
                      ELSE <<>>)
        collapsed == [i \in 1..Len(pieces) |->
                         collapseWhitespace(pieces[i], FALSE)]
    IN joinPieces(SelectSeq(collapsed, LAMBDA s : s # <<>>))

\* shortest normalized paragraph text that is indexed
MinParagraphLength == 20

\* the paragraph test of buildIndex without the length threshold
paragraphIndexedAnyLength(lastHeading, text) ==
    lastHeading # 0 /\ text # <<>>

\* a paragraph is indexed: lastHeading && text && text.length >= 20
paragraphIndexed(lastHeading, text) ==
    lastHeading # 0 /\ text # <<>> /\ Len(text) >= MinParagraphLength

\* a link is indexed: lastHeading && linkText
linkIndexed(lastHeading, linkText) == lastHeading # 0 /\ linkText # <<>>

\* a parent title always taken from the first element of the document
parentTitleOfFirst(doc, lastHeading) == normalizeText(doc[1].text)

\* lastHeading._extTitle || normalizeText(lastHeading.textContent) || '',
\* _extTitle being the title computed when the heading was visited
parentTitleOf(doc, lastHeading) ==
    LET extTitle == normalizeText(doc[lastHeading].text)
    IN IF extTitle # <<>> THEN extTitle
       ELSE normalizeText(doc[lastHeading].text)

Entry(id, title, level, node, parentTitle, searchText) ==
    [id |-> id, title |-> title, level |-> level, node |-> node,
     parentTitle |-> parentTitle, searchText |-> searchText]

\* (parentTitle ? parentTitle + ' ' : '') + text
withParent(parentTitle, text) ==
    (IF parentTitle # <<>> THEN parentTitle \o <<" ">> ELSE <<>>) \o text

\* the body of the while loop of buildIndex, from element i on; b holds the
\* document (markers are written during the walk), the index, the counter
\* and the position of lastHeading (0 for null)
RECURSIVE walk(_, _, _)
walk(b, i, basePath) ==
    IF i > Len(b.doc)
    THEN b
    ELSE LET current == b.doc[i]
             marked == ensureElementId(current, b.counter)
             doc1 == [b.doc EXCEPT ![i] = marked.el]
             text == normalizeText(current.text)
             linkText == normalizeText(getElementSearchText(current, basePath))
             parentTitle == parentTitleOf(b.doc, b.lastHeading)
         IN IF ~acceptNode(current)
            THEN walk(b, i + 1, basePath)
            ELSE IF isHeadingElement(current)
            THEN walk([doc |-> doc1,
                       index |-> Append(b.index,
                           Entry(marked.el.marker, text, current.tag,
                                 current.uid, <<>>, text)),
                       counter |-> marked.counter,
                       lastHeading |-> i], i + 1, basePath)
            ELSE IF current.tag = <<"p">>
            THEN IF paragraphIndexed(b.lastHeading, text)
                 THEN walk([b EXCEPT !.doc = doc1,
                               !.index = Append(@,
                                   Entry(marked.el.marker, text, <<"p">>,
                                         current.uid, parentTitle,
                                         withParent(parentTitle, text))),
                               !.counter = marked.counter], i + 1, basePath)
                 ELSE walk(b, i + 1, basePath)
            ELSE IF linkIndexed(b.lastHeading, linkText)
                 THEN walk([b EXCEPT !.doc = doc1,
                               !.index = Append(@,
                                   Entry(marked.el.marker, linkText, <<"a">>,
                                         current.uid, parentTitle,
                                         withParent(parentTitle, linkText))),
                               !.counter = marked.counter], i + 1, basePath)
                 ELSE walk(b, i + 1, basePath)

\* buildIndex on a document: index = [], counter = 0, the walk; the result
\* holds the document with its markers, the index and the counter
buildIndex(doc, basePath) ==
    walk([doc |-> doc, index |-> <<>>, counter |-> 0, lastHeading |-> 0],
         1, basePath)

(***************************************************************************)
(* getSuggestions and scrollToId, as functions of the frame's state.       *)
(***************************************************************************)
\* the location of a frame; location.href is the origin followed by the path
Location(origin, pathname) == [origin |-> origin, pathname |-> pathname]
hrefOf(loc) == loc.origin \o loc.pathname

\* getFrameKey: location.href (reading the frame's own location never throws)
getFrameKey(loc) == hrefOf(loc)

\* longest title shown without truncation
DisplayMax == 120
\* U+2026 HORIZONTAL ELLIPSIS and U+2014 EM DASH
Ellipsis == "^"
EmDash == "~"

\* truncateForDisplay with a maximum of 100 characters
truncateForDisplayAt100(text) ==
    IF Len(text) <= 100 THEN text ELSE SubSeq(text, 1, 99) \o <<Ellipsis>>

truncateForDisplay(text) ==
    IF Len(text) <= DisplayMax
    THEN text
    ELSE SubSeq(text, 1, DisplayMax - 1) \o <<Ellipsis>>

\* an insertion that puts the new element in front of those of equal score
insertBeforeTies(sorted, s) ==
    LET k == Cardinality({i \in 1..Len(sorted) : sorted[i].score > s.score})
    IN SubSeq(sorted, 1, k) \o <<s>> \o SubSeq(sorted, k + 1, Len(sorted))

\* Array.prototype.sort((a, b) => b.score - a.score): stable, descending
RECURSIVE insertByScore(_, _)
insertByScore(sorted, s) ==
    IF sorted = <<>>
    THEN <<s>>
    ELSE IF Head(sorted).score >= s.score
         THEN <<Head(sorted)>> \o insertByScore(Tail(sorted), s)
         ELSE <<s>> \o sorted

\* no sort: the elements stay in their order
sortByScoreNot(scored) == scored

RECURSIVE sortByScore(_)
sortByScore(scored) ==
    IF scored = <<>>
    THEN <<>>
    ELSE insertByScore(sortByScore(SubSeq(scored, 1, Len(scored) - 1)),
                       scored[Len(scored)])

\* frameKey + '::' + rawId
qualifiedId(frameKey, rawId) == frameKey \o <<":", ":">> \o rawId

Suggestion(frameKey, it) ==
    [id |-> qualifiedId(frameKey, it.id),
     rawId |-> it.id,
     frameHref |-> frameKey,
     title |-> IF it.level = <<"p">> \/ it.level = <<"a">>
               THEN (IF it.parentTitle # <<>>
                     THEN it.parentTitle \o <<" ", EmDash, " ">>
                     ELSE <<>>) \o truncateForDisplay(it.title)
               ELSE it.title,
     level |-> it.level]

\* limit ? scored.slice(0, limit) : scored
sliceTo(sorted, limit) ==
    IF limit # 0 THEN SubSeq(sorted, 1, Min(limit, Len(sorted))) ELSE sorted

\* scored: the entries of the index with their scores, those of negative
\* score filtered out, sorted and cut at the limit
rankedOf(idx, query, limit) ==
    LET q == toLowerCase(normalizeText(query))
        scored == [i \in 1..Len(idx) |->
                      [item |-> idx[i], score |-> scoreItem(q, idx[i])]]
    IN sliceTo(sortByScore(SelectSeq(scored, LAMBDA s : s.score >= 0)),
               limit)

\* the map of the sliced entries to suggestions
suggestionsOfRanked(sliced, frameKey) ==
    [i \in 1..Len(sliced) |-> Suggestion(frameKey, sliced[i].item)]

\* the suggestions computed from an index
suggestionsOf(idx, loc, query, limit) ==
    suggestionsOfRanked(rankedOf(idx, query, limit), getFrameKey(loc))

\* the frame's state as the indexer functions read and write it
FrameState(doc, idx, cnt, indexed) ==
    [doc |-> doc, index |-> idx, counter |-> cnt, isIndexed |-> indexed,
     rebuilt |-> 0]

\* the frame's state once buildIndex has returned b: isIndexed = true
indexedState(st, b) ==
    [doc |-> b.doc, index |-> b.index, counter |-> b.counter,
     isIndexed |-> TRUE, rebuilt |-> st.rebuilt + 1]

\* buildIndex applied to a frame's state
rebuild(st, loc) == indexedState(st, buildIndex(st.doc, loc.pathname))

\* the scoring, sorting and mapping of getSuggestions on the state st
suggestionsFrom(st, loc, query, limit) ==
    [st |-> st, suggestions |-> suggestionsOf(st.index, loc, query, limit)]

\* getSuggestions: the state after the call and the returned list
getSuggestions(st, loc, query, limit) ==
    suggestionsFrom(IF ~st.isIndexed THEN rebuild(st, loc) ELSE st,
                    loc, query, limit)

\* id.indexOf('::') > 0 ? id.slice(delim + 2) : id
rawIdOf(id) ==
    LET delim == indexOf(id, <<":", ":">>)
    IN IF delim > 0 THEN SubSeq(id, delim + 3, Len(id)) ELSE id

\* document.querySelector('[data-ext-jump-id="..."]'): position of the first
\* element in document order whose marker attribute equals rawId, 0 for null
querySelector(doc, rawId) ==
    LET hits == {i \in 1..Len(doc) :
                    doc[i].marker # <<>> /\ doc[i].marker = rawId}
    IN IF hits = {} THEN 0 ELSE SetMin(hits)

\* scrollToId that does not rebuild after a miss
scrollToIdNoRetry(st, loc, id) ==
    LET rawId == rawIdOf(id)
        el == querySelector(st.doc, rawId)
    IN [st |-> st, el |-> el, ok |-> el # 0]

\* the end of scrollToId: if (!el) return false; ... return true
scrollResult(st, el) == [st |-> st, el |-> el, ok |-> el # 0]

\* document.querySelector on the document of the state st
select(st, rawId) == scrollResult(st, querySelector(st.doc, rawId))

\* the lookups of scrollToId for a raw identifier: querySelector and, after
\* a miss, buildIndex and querySelector again
lookup(st, loc, rawId) ==
    IF select(st, rawId).ok
    THEN select(st, rawId)
    ELSE select(rebuild(st, loc), rawId)

\* scrollToId: the state after the lookups, the element found (0 for none)
\* and the returned flag
scrollToId(st, loc, id) == lookup(st, loc, rawIdOf(id))

\* the observer's options and callback: a change of this type is reported
\* and marks the index stale, for any type
mutationMarksStaleAnyType(type) == TRUE

\* the observer's options and callback: a change of this type is reported
\* (childList, characterData; attributes are not observed) and its record
\* sets isIndexed = false
mutationMarksStale(type) ==
    /\ type \in {"childList", "characterData"}
    /\ type = "childList" \/ type = "characterData"

\* isIndexed after the observer has been told of the writes of a handler:
\* wrote tells that the handler changed an attribute or a class
afterOwnWrites(indexed, wrote) ==
    IF wrote /\ mutationMarksStale("attributes") THEN FALSE ELSE indexed

(***************************************************************************)
(* Pages: the locations, texts and elements that the model draws from.     *)
(***************************************************************************)
\* most elements in a document
MaxElems == 4
\* most changes made by the page
MaxEdits == 2
\* most highlight timers pending in a frame
MaxTimers == 2

PlainLocation == Location(<<"o">>, <<"/", "d">>)
\* an origin with an IPv6 literal, as in https://[::1]/
ColonLocation == Location(<<"[", ":", ":", "1", "]">>, <<"/">>)
Locations == {PlainLocation, ColonLocation}

TIntro == <<"I", "n", "t", "r", "o">>
TUse == <<" ", "U", "s", "e", " ", " ", "i", "t", "\n">>
\* 20 characters once normalized
TLong == Rep("y", 10) \o <<" ", " ">> \o Rep("y", 9)
\* 22 characters, 19 once normalized
TShort == <<" ">> \o Rep("x", 9) \o <<" ", "\t">> \o Rep("x", 9) \o <<" ">>
TGo == <<"G", "o">>
TTip == <<"T", "i", "p">>
TFile == <<"/", "d", "/", "f", ".", "p", "d", "f">>

\* elements without identity: uid 0 is replaced when they enter a document
HeadingIntro == Element(0, <<"h", "2">>, TIntro, <<>>, <<>>, <<>>)
HeadingUse == Element(0, <<"h", "3">>, TUse, <<>>, <<>>, <<>>)
HeadingEmpty == Element(0, <<"h", "1">>, <<>>, <<>>, <<>>, <<>>)
ParLong == Element(0, <<"p">>, TLong, <<>>, <<>>, <<>>)
ParShort == Element(0, <<"p">>, TShort, <<>>, <<>>, <<>>)
LinkFile == Element(0, <<"a">>, <<>>, <<>>, <<>>, TFile)
LinkText == Element(0, <<"a">>, TGo, <<>>, TTip, TFile)
LinkBare == Element(0, <<"a">>, <<>>, <<>>, <<>>, <<>>)
Division == Element(0, <<"d", "i", "v">>, TGo, <<>>, <<>>, <<>>)

\* a document made of the given elements, numbered in document order
DocOf(elems) == [i \in 1..Len(elems) |-> [elems[i] EXCEPT !.uid = i]]

InitialDocs ==
    {DocOf(<<HeadingIntro, ParLong, LinkFile>>),
     DocOf(<<ParLong, HeadingIntro, ParShort>>),
     DocOf(<<HeadingIntro, HeadingUse, LinkBare>>),
     DocOf(<<Division, HeadingEmpty, LinkText>>)}

\* elements that the page inserts
InsertedElements == {HeadingUse, ParLong}
\* texts that the page writes into an element
WrittenTexts == {TShort}
\* attributes of an anchor that the page sets, and the values it gives them
AnchorAttributes == {"aria-label", "title", "href"}
AttributeValues == {TTip}

\* MAX_RESULTS of the popup, the limit that it sends
MAX_RESULTS == 20

\* queries typed into the popup: empty, blank, and one that matches a title
Queries == {<<>>, <<" ", "\t">>, <<" ", "I", "n">>}
\* limits of a PAGE_JUMP_GET_SUGGESTIONS message; 0 stands for no limit
Limits == {0, 1, 20}

\* identifiers that a PAGE_JUMP_SCROLL_TO message can carry: raw and
\* qualified identifiers, of elements that exist or not
ScrollIds(loc) ==
    {generateId(n) : n \in 1..2}
    \cup {qualifiedId(getFrameKey(loc), generateId(n)) : n \in 1..2}
    \cup {<<>>, <<":", ":">> \o generateId(1)}

(***************************************************************************)
(* Steps of a frame's content script.                                      *)
(***************************************************************************)
\* rebuilt is the number of buildIndex runs of the step, target the uid of
\* the element scrolled to and highlighted (0 for none), change the type of
\* a mutation record
IxEvent(type, f, id, suggestions, ok, target, rebuilt, change) ==
    [type |-> type, frame |-> f, id |-> id, suggestions |-> suggestions,
     ok |-> ok, target |-> target, rebuilt |-> rebuilt, change |-> change]

stateOf(f) ==
    FrameState(document[f], frameIndex[f], counter[f], isIndexed[f])

\* the frame's variables after a handler: wrote tells that the handler
\* changed a marker attribute or a class of the document
Commit(f, st, doc, wrote) ==
    /\ document' = [document EXCEPT ![f] = doc]
    /\ frameIndex' = [frameIndex EXCEPT ![f] = st.index]
    /\ counter' = [counter EXCEPT ![f] = st.counter]
    /\ isIndexed' = [isIndexed EXCEPT
                        ![f] = afterOwnWrites(st.isIndexed, wrote)]

\* the frame's variables after a handler that leaves the state st
CommitState(f, st) == Commit(f, st, st.doc, st.doc # document[f])

\* lines 238-243: buildIndex at start-up, at once or on DOMContentLoaded
Startup(f) ==
    /\ f \in DOMAIN document
    /\ ~loaded[f]
    /\ CommitState(f, rebuild(stateOf(f), location[f]))
    /\ loaded' = [loaded EXCEPT ![f] = TRUE]
    /\ ixEvent' = IxEvent("startup", f, <<>>, <<>>, FALSE, 0, 1, "")
    /\ UNCHANGED <<location, timers, edits, popup, search, vars, probe>>

\* sendResponse({ suggestions }) with the result r of getSuggestions
SuggestionsSent(f, query, r) ==
    /\ CommitState(f, r.st)
    /\ ixEvent' = IxEvent("PAGE_JUMP_GET_SUGGESTIONS", f, query,
                          r.suggestions, TRUE, 0, r.st.rebuilt, "")

\* the PAGE_JUMP_GET_SUGGESTIONS branch of the listener
GetSuggestions(f, query, limit) ==
    /\ f \in DOMAIN document
    /\ SuggestionsSent(f, query,
           getSuggestions(stateOf(f), location[f], query, limit))
    /\ UNCHANGED <<location, loaded, timers, edits, popup, search, vars, probe>>

\* highlight that adds the class and sets no timer
ScrolledNoTimer(f, id, r) ==
    LET doc == IF r.ok
               THEN [r.st.doc EXCEPT ![r.el].highlighted = TRUE]
               ELSE r.st.doc
    IN /\ Commit(f, r.st, doc, doc # document[f])
       /\ timers' = timers
       /\ ixEvent' = IxEvent("PAGE_JUMP_SCROLL_TO", f, id, <<>>, r.ok,
                             IF r.ok THEN doc[r.el].uid ELSE 0,
                             r.st.rebuilt, "")

\* smoothScrollTo and highlight on the element found by scrollToId (its
\* result is r), and sendResponse({ ok })
Scrolled(f, id, r) ==
    LET doc == IF r.ok
               THEN [r.st.doc EXCEPT ![r.el].highlighted = TRUE]
               ELSE r.st.doc
    IN /\ Commit(f, r.st, doc, doc # document[f])
       /\ timers' = IF r.ok
                    THEN [timers EXCEPT ![f] = Append(@, doc[r.el].uid)]
                    ELSE timers
       /\ ixEvent' = IxEvent("PAGE_JUMP_SCROLL_TO", f, id, <<>>, r.ok,
                             IF r.ok THEN doc[r.el].uid ELSE 0,
                             r.st.rebuilt, "")

\* the PAGE_JUMP_SCROLL_TO branch of the listener: scrollToId, then
\* smoothScrollTo and highlight on the element found
ScrollTo(f, id) ==
    /\ f \in DOMAIN document
    /\ Len(timers[f]) < MaxTimers
    /\ Scrolled(f, id, scrollToId(stateOf(f), location[f], id))
    /\ UNCHANGED <<location, loaded, edits, popup, search, vars, probe>>

\* the timer set by highlight fires: the class is removed from its node
HighlightExpires(f) ==
    /\ f \in DOMAIN document
    /\ timers[f] # <<>>
    /\ LET uid == Head(timers[f])
           doc == [i \in 1..Len(document[f]) |->
                      IF document[f][i].uid = uid
                      THEN [document[f][i] EXCEPT !.highlighted = FALSE]
                      ELSE document[f][i]]
       IN /\ document' = [document EXCEPT ![f] = doc]
          /\ isIndexed' = [isIndexed EXCEPT
                  ![f] = afterOwnWrites(@, doc # document[f])]
    /\ timers' = [timers EXCEPT ![f] = Tail(@)]
    /\ ixEvent' = IxEvent("timer", f, <<>>, <<>>, FALSE, 0, 0, "")
    /\ UNCHANGED <<location, frameIndex, counter, loaded, edits, popup, search,
                   vars, probe>>

(***************************************************************************)
(* Changes made by the page, each followed by the delivery of its record   *)
(* to the MutationObserver (a microtask, so before any later message).     *)
(***************************************************************************)
PageChange(f, doc, type) ==
    /\ edits < MaxEdits
    /\ doc # document[f]
    /\ document' = [document EXCEPT ![f] = doc]
    /\ isIndexed' = [isIndexed EXCEPT
            ![f] = IF mutationMarksStale(type) THEN FALSE ELSE @]
    /\ edits' = edits + 1
    /\ ixEvent' = IxEvent("mutation", f, <<>>, <<>>, FALSE, 0, 0, type)
    /\ UNCHANGED <<location, frameIndex, counter, loaded, timers, popup, search,
                   vars, probe>>

InsertAt(doc, pos, el) ==
    SubSeq(doc, 1, pos - 1) \o <<el>> \o SubSeq(doc, pos, Len(doc))
RemoveAt(doc, pos) ==
    SubSeq(doc, 1, pos - 1) \o SubSeq(doc, pos + 1, Len(doc))

InsertElement(f, pos, el) ==
    /\ f \in DOMAIN document
    /\ Len(document[f]) < MaxElems
    /\ pos \in 1..(Len(document[f]) + 1)
    /\ PageChange(f, InsertAt(document[f], pos,
                              [el EXCEPT !.uid = MaxElems + edits + 1]),
                  "childList")

RemoveElement(f, pos) ==
    /\ f \in DOMAIN document
    /\ pos \in 1..Len(document[f])
    /\ PageChange(f, RemoveAt(document[f], pos), "childList")

SetText(f, pos, text) ==
    /\ f \in DOMAIN document
    /\ pos \in 1..Len(document[f])
    /\ PageChange(f, [document[f] EXCEPT ![pos].text = text],
                  "characterData")

SetAttribute(f, pos, name, value) ==
    /\ f \in DOMAIN document
    /\ pos \in 1..Len(document[f])
    /\ document[f][pos].tag = <<"a">>
    /\ PageChange(f,
          IF name = "aria-label"
          THEN [document[f] EXCEPT ![pos].aria = value]
          ELSE IF name = "title"
          THEN [document[f] EXCEPT ![pos].title = value]
          ELSE [document[f] EXCEPT ![pos].href = value],
          "attributes")

\* the content script has been injected into the given frames
PagesOpened(locs, docs) ==
    /\ location = locs
    /\ document = docs
    /\ isIndexed = [f \in DOMAIN docs |-> FALSE]
    /\ frameIndex = [f \in DOMAIN docs |-> <<>>]
    /\ counter = [f \in DOMAIN docs |-> 0]
    /\ loaded = [f \in DOMAIN docs |-> FALSE]
    /\ timers = [f \in DOMAIN docs |-> <<>>]
    /\ edits = 0
    /\ ixEvent = NoIxEvent
    /\ popup = <<>>
    /\ search = NoSearch

(***************************************************************************)
(* The indexer of one frame.                                               *)
(***************************************************************************)
IxInit ==
    /\ ServiceWorkerLoaded
    /\ probe = NoProbe
    /\ \E doc \in InitialDocs : PagesOpened(<<PlainLocation>>, <<doc>>)

IxNext ==
    \/ Startup(1)
    \/ \E query \in Queries, limit \in Limits : GetSuggestions(1, query, limit)
    \/ \E pos \in 1..(MaxElems + 1), el \in InsertedElements :
          InsertElement(1, pos, el)
    \/ \E pos \in 1..MaxElems : RemoveElement(1, pos)
    \/ \E pos \in 1..MaxElems, text \in WrittenTexts : SetText(1, pos, text)
    \/ \E pos \in 1..MaxElems, name \in AnchorAttributes,
          value \in AttributeValues : SetAttribute(1, pos, name, value)

IxSpec == IxInit /\ [][IxNext]_allVars

(***************************************************************************)
(* One frame with its jump handler: suggestions are requested, identifiers *)
(* are scrolled to, highlights expire, and the page changes.               *)
(***************************************************************************)
JumpDocs == {DocOf(<<HeadingIntro, ParLong>>)}

JumpInit ==
    /\ ServiceWorkerLoaded
    /\ probe = NoProbe
    /\ \E loc \in Locations, doc \in JumpDocs : PagesOpened(<<loc>>, <<doc>>)

JumpNext ==
    \/ Startup(1)
    \/ GetSuggestions(1, <<>>, MAX_RESULTS)
    \/ \E id \in ScrollIds(location[1]) : ScrollTo(1, id)
    \/ HighlightExpires(1)
    \/ InsertElement(1, 1, HeadingUse)
    \/ \E pos \in 1..MaxElems : RemoveElement(1, pos)
    \/ \E pos \in 1..MaxElems, text \in WrittenTexts : SetText(1, pos, text)

JumpSpec == JumpInit /\ [][JumpNext]_allVars

\* the timers set by highlight fire: setTimeout runs its callback
FairJumpSpec == JumpSpec /\ WF_allVars(HighlightExpires(1))

(***************************************************************************)
(* The popup and the frames of the active tab (part_001).                  *)
(***************************************************************************)
\* the de-duplication loop of requestLocalSuggestions
RECURSIVE dedupe(_, _, _)
dedupe(all, seen, deduped) ==
    IF all = <<>>
    THEN deduped
    ELSE LET item == Head(all)
             out == IF item.id \notin seen
                    THEN Append(deduped, item)
                    ELSE deduped
         IN IF Len(out) >= MAX_RESULTS
            THEN out
            ELSE dedupe(Tail(all), seen \cup {item.id}, out)

\* all.push(...r.value) over the frames, in the order of getAllFrames
RECURSIVE concatAll(_)
concatAll(lists) ==
    IF lists = <<>> THEN <<>> ELSE Head(lists) \o concatAll(Tail(lists))

\* response.suggestions.map(s => ({...s, _frameId}))
withFrameId(suggestions, f) ==
    [i \in 1..Len(suggestions) |->
        [id |-> suggestions[i].id, rawId |-> suggestions[i].rawId,
         frameHref |-> suggestions[i].frameHref,
         title |-> suggestions[i].title, level |-> suggestions[i].level,
         frameId |-> f]]

\* requestLocalSuggestions: every frame answers PAGE_JUMP_GET_SUGGESTIONS,
\* the answers are concatenated and de-duplicated by id
\* the tail of requestLocalSuggestions, once every frame f has answered
\* with r[f]: all is the concatenation of the answers
SuggestionsGathered(query, r, all) ==
    /\ document' = [f \in DOMAIN document |-> r[f].st.doc]
    /\ frameIndex' = [f \in DOMAIN document |-> r[f].st.index]
    /\ counter' = [f \in DOMAIN document |-> r[f].st.counter]
    /\ isIndexed' = [f \in DOMAIN document |->
          afterOwnWrites(r[f].st.isIndexed, r[f].st.doc # document[f])]
    /\ popup' = dedupe(all, {}, <<>>)
    /\ ixEvent' = IxEvent("requestLocalSuggestions", 0, query, all,
                          TRUE, 0, 0, "")

\* the answers of the frames to PAGE_JUMP_GET_SUGGESTIONS
frameAnswers(query) ==
    [f \in DOMAIN document |->
        getSuggestions(stateOf(f), location[f], query, MAX_RESULTS)]

\* requestLocalSuggestions: every frame answers PAGE_JUMP_GET_SUGGESTIONS,
\* the answers are concatenated and de-duplicated by id
RequestLocalSuggestions(query) ==
    /\ document # <<>>
    /\ SuggestionsGathered(query, frameAnswers(query),
          concatAll([f \in DOMAIN document |->
              withFrameId(frameAnswers(query)[f].suggestions, f)]))
    /\ UNCHANGED <<location, loaded, timers, edits, search, vars, probe>>

TabDocs == {DocOf(<<HeadingIntro, ParLong>>), DocOf(<<HeadingUse>>),
            DocOf(<<ParShort>>)}

TabInit ==
    /\ ServiceWorkerLoaded
    /\ probe = NoProbe
    /\ \E loc1 \in Locations, loc2 \in Locations,
          doc1 \in TabDocs, doc2 \in TabDocs :
          PagesOpened(<<loc1, loc2>>, <<doc1, doc2>>)

TabNext ==
    \/ \E f \in 1..2 : Startup(f)
    \/ \E query \in Queries : RequestLocalSuggestions(query)

TabSpec == TabInit /\ [][TabNext]_allVars

(***************************************************************************)
(* One frame whose document is a heading followed by a paragraph; the      *)
(* popup asks for the paragraph's own text.                                *)
(***************************************************************************)
\* heading texts: a word, none, one to be normalized, the text of a
\* paragraph, and two that hold the characters of a paragraph in order
TopHeadings ==
    {TIntro, <<>>, TUse, TLong,
     Rep("y", 15) \o <<" ">> \o Rep("y", 15),
     Rep("y", 10) \o <<"x", " ">> \o Rep("y", 26)}
\* paragraph texts of 19, 20, 25, 120 and 121 characters once normalized
TopParagraphs ==
    {TShort, TLong, <<"F", "i", "l", "l">> \o Rep("Q", 21),
     Rep("z", DisplayMax), Rep("z", DisplayMax + 1)}

TopInit ==
    /\ ServiceWorkerLoaded
    /\ probe = NoProbe
    /\ \E h \in TopHeadings, p \in TopParagraphs :
          PagesOpened(<<PlainLocation>>,
                      <<DocOf(<<Element(0, <<"h", "1">>, h, <<>>, <<>>, <<>>),
                                Element(0, <<"p">>, p, <<>>, <<>>, <<>>)>>)>>)

TopNext ==
    \/ Startup(1)
    \/ \E limit \in Limits : GetSuggestions(1, document[1][2].text, limit)

TopSpec == TopInit /\ [][TopNext]_allVars


(***************************************************************************)
(* CRAWL_SEARCH (part_003): score, buildTextFragment and the handler, as   *)
(* functions of the page map.  Here a page map is the sequence of its      *)
(* pages in insertion order (the order of Map.prototype.entries), a page   *)
(* is [url, title, text], and URLs are strings.                            *)
(***************************************************************************)
Max(a, b) == IF a > b THEN a ELSE b

\* the divisor of score; the scores of the model are the source's scores
\* times this number, which keeps them integers and keeps their order
ScoreUnit == 50
\* items.slice(0, 20)
SearchCap == 20
\* the window of buildTextFragment around the first occurrence
FragmentBefore == 20
FragmentAfter == 80

\* score(query, text, title), times ScoreUnit
score(query, text, title) ==
    LET q == toLowerCase(query)
        t == toLowerCase(title)
        body == toLowerCase(text)
        idx == indexOf(body, q)
    IN IF q = <<>> THEN 0
       ELSE (IF StartsWith(t, q) THEN 30 * ScoreUnit ELSE 0)
            + (IF indexOf(t, q) >= 0 THEN 20 * ScoreUnit ELSE 0)
            + (IF idx >= 0
               THEN 10 * ScoreUnit + Max(0, 20 * ScoreUnit - idx)
               ELSE 0)

\* the concatenation of a sequence of strings, by halves
RECURSIVE concat(_)
concat(strings) ==
    IF strings = <<>> THEN <<>>
    ELSE IF Len(strings) = 1 THEN strings[1]
    ELSE concat(SubSeq(strings, 1, Len(strings) \div 2))
         \o concat(SubSeq(strings, (Len(strings) \div 2) + 1, Len(strings)))

\* the escapes of encodeURIComponent for the reserved characters of the
\* model's texts; letters and digits are left as they are
Escapes ==
    [c \in {" ", "%", "/", "&"} |->
        IF c = " " THEN <<"%", "2", "0">>
        ELSE IF c = "%" THEN <<"%", "2", "5">>
        ELSE IF c = "/" THEN <<"%", "2", "F">>
        ELSE <<"%", "2", "6">>]

encodeURIComponent(text) ==
    concat([i \in 1..Len(text) |->
               IF text[i] \in DOMAIN Escapes
               THEN Escapes[text[i]] ELSE <<text[i]>>])

\* '#:~:text='
FragmentPrefix == <<"#", ":", "~", ":", "t", "e", "x", "t", "=">>

\* text.slice(start, end) with 0 <= start
slice(text, start, end) == SubSeq(text, start + 1, Min(end, Len(text)))

\* buildTextFragment whose window begins at the occurrence
buildTextFragmentFromMatch(text, query) ==
    LET i == indexOf(toLowerCase(text), toLowerCase(query))
    IN IF text = <<>> \/ query = <<>> \/ i < 0 THEN <<>>
       ELSE FragmentPrefix \o encodeURIComponent(normalizeText(
               slice(text, i, Min(Len(text), i + FragmentAfter))))

buildTextFragment(text, query) ==
    LET i == indexOf(toLowerCase(text), toLowerCase(query))
    IN IF text = <<>> \/ query = <<>> \/ i < 0 THEN <<>>
       ELSE FragmentPrefix \o encodeURIComponent(normalizeText(
               slice(text, Max(0, i - FragmentBefore),
                     Min(Len(text), i + FragmentAfter))))

Page(url, title, text) == [url |-> url, title |-> title, text |-> text]

\* pageIndex.get(scopeKey); <<>> stands for undefined as well as for an
\* empty Map, which the handler treats alike
pagesOfScope(pi, scopeKey) ==
    IF scopeKey \in DOMAIN pi THEN pi[scopeKey] ELSE <<>>

\* the loop over idx.entries() that keeps the pages of every score
scoredPagesAnyScore(idx, query) ==
    [k \in 1..Len(idx) |->
        [url |-> idx[k].url,
         title |-> IF idx[k].title # <<>> THEN idx[k].title ELSE idx[k].url,
         score |-> score(query, idx[k].text, idx[k].title),
         text |-> idx[k].text]]

\* the loop over idx.entries(): items
scoredPages(idx, query) ==
    SelectSeq([k \in 1..Len(idx) |->
                  [url |-> idx[k].url,
                   title |-> IF idx[k].title # <<>>
                             THEN idx[k].title ELSE idx[k].url,
                   score |-> score(query, idx[k].text, idx[k].title),
                   text |-> idx[k].text]],
              LAMBDA it : it.score > 0)

\* the map of the top items to results
SearchResult(it, query) ==
    [id |-> <<"c", "r", "a", "w", "l", ":">> \o it.url,
     level |-> "site",
     title |-> it.title \o <<" ", EmDash, " ">> \o it.url,
     url |-> it.url,
     fragment |-> buildTextFragment(it.text, query)]

resultsOf(top, query) == [k \in 1..Len(top) |-> SearchResult(top[k], query)]

\* the results that the CRAWL_SEARCH handler sends
crawlSearch(pi, query, scopeKey) ==
    resultsOf(slice(sortByScore(scoredPages(pagesOfScope(pi, scopeKey),
                                            query)),
                    0, SearchCap),
              query)

(***************************************************************************)
(* Search probe: a page map, a scope key and a query are drawn, and the    *)
(* handler answers.                                                        *)
(***************************************************************************)
\* most characters in front of a match in a stored text
MaxOffset == 1001

TNe == <<"n", "e">>
\* a text of 152 characters with its match at 30 and spaces at 10 and 122
TWindow == Rep("x", 10) \o <<" ">> \o Rep("x", 19) \o <<"N", "e">>
           \o Rep("y", 90) \o <<" ">> \o Rep("y", 29)
SearchPages ==
    <<Page(<<"u", "1">>, <<"N", "e", "w", "s">>, TWindow),
      Page(<<"u", "2">>, <<"O", "n", "e">>, <<"a", "/", "b", " ", "c">>),
      Page(<<"u", "3">>, <<>>, Rep("x", MaxOffset) \o TNe),
      Page(<<"u", "4">>, <<"T">>, <<"q", " ", "&", "%">>),
      Page(<<"u", "5">>, <<>>, <<"a", " ", "n", "E", " ", "b">>),
      Page(<<"u", "6">>, <<"n", "e">>, <<>>)>>

\* more pages than the handler returns, stored by ascending score
ManyPages ==
    [k \in 1..(SearchCap + 2) |->
        Page(<<"p">> \o ToDigits(k), <<>>,
             Rep("x", SearchCap + 2 - k) \o TNe)]

SearchKeys == {makeScopeKey(u) : u \in {RootUrl, DirUrl, OtherHost}}

SearchIndexes ==
    {<<>>,
     [key \in {makeScopeKey(RootUrl)} |-> <<>>],
     [key \in {makeScopeKey(RootUrl), makeScopeKey(DirUrl)} |->
         IF key = makeScopeKey(RootUrl)
         THEN SearchPages ELSE SubSeq(ManyPages, 1, 2)],
     [key \in {makeScopeKey(DirUrl)} |-> ManyPages]}

SearchQueries ==
    {<<>>, <<"N", "e">>, <<"z", "z">>, <<" ">>, <<"N", "E", "W", "S">>}

SearchProbeInit ==
    \E pi \in SearchIndexes, key \in SearchKeys, q \in SearchQueries :
        probe = [applied |-> FALSE, pageIndex |-> pi, scopeKey |-> key,
                 query |-> q, results |-> <<>>]

\* the CRAWL_SEARCH branch of the listener on the probe's page map
SearchAnswered ==
    /\ ~probe.applied
    /\ probe' = [probe EXCEPT
                    !.applied = TRUE,
                    !.results = crawlSearch(probe.pageIndex, probe.query,
                                            probe.scopeKey)]
    /\ UNCHANGED <<vars, pageVars>>

SearchInit == ServiceWorkerLoaded /\ NoPages /\ SearchProbeInit
SearchNext == SearchAnswered
SearchSpec == SearchInit /\ [][SearchNext]_allVars


(***************************************************************************)
(* Scope probe: two URLs are drawn and makeScopeKey is applied to both.    *)
(***************************************************************************)
\* most characters of a path name after its leading slash
MaxPathLen == 3

\* characters of a path name: the separator, a letter, and the separator
\* of scope keys
PathChars == {"/", "a", "|"}
RECURSIVE PathsOfLength(_)
PathsOfLength(n) ==
    IF n = 0
    THEN {<<"/">>}
    ELSE {Append(p, c) : p \in PathsOfLength(n - 1), c \in PathChars}
\* the path name of a parsed URL begins with a slash
ProbePaths == UNION {PathsOfLength(n) : n \in 0..MaxPathLen}
ProbeUrls == {Url(h, p) : h \in {"h1", "h2"}, p \in ProbePaths}

ScopeProbeInit ==
    \E u \in ProbeUrls, v \in ProbeUrls :
        probe = [applied |-> FALSE, u |-> u, v |-> v,
                 keyU |-> <<>>, keyV |-> <<>>]

ScopeKeysMade ==
    /\ ~probe.applied
    /\ probe' = [probe EXCEPT !.applied = TRUE,
                              !.keyU = makeScopeKey(probe.u),
                              !.keyV = makeScopeKey(probe.v)]
    /\ UNCHANGED <<vars, pageVars>>

ScopeInit == ServiceWorkerLoaded /\ NoPages /\ ScopeProbeInit
ScopeNext == ScopeKeysMade
ScopeSpec == ScopeInit /\ [][ScopeNext]_allVars


(***************************************************************************)
(* The popup in site mode (part_001): runSearch, the crawl poll of         *)
(* scheduleCrawlRefresh and renderSuggestions.  The answers of the frames  *)
(* and of the background are inputs; every item of an answer is tagged     *)
(* with the query of the request that it answers.                          *)
(***************************************************************************)
\* searches submitted in a run
MaxSubmits == 3
\* runSearch calls and crawl polls waiting for an answer at the same time
MaxWaiting == 2

frameVars == <<location, document, isIndexed, frameIndex, counter, loaded,
               timers, edits, ixEvent>>

\* rawQuery.split(/\s+/).filter(Boolean): cur is the token being read
RECURSIVE splitTokens(_, _, _)
splitTokens(text, cur, out) ==
    IF text = <<>>
    THEN (IF cur # <<>> THEN Append(out, cur) ELSE out)
    ELSE IF Head(text) \in Whitespace
    THEN splitTokens(Tail(text), <<>>,
                     IF cur # <<>> THEN Append(out, cur) ELSE out)
    ELSE splitTokens(Tail(text), Append(cur, Head(text)), out)

\* kept.join(' ')
RECURSIVE joinTokens(_)
joinTokens(tokens) ==
    IF tokens = <<>> THEN <<>>
    ELSE IF Len(tokens) = 1 THEN Head(tokens)
    ELSE Head(tokens) \o <<" ">> \o joinTokens(Tail(tokens))

\* tok.startsWith('@') && tok.length > 1
isOverrideToken(tok) == Head(tok) = "@" /\ Len(tok) > 1

\* parseDomainOverride(rawQuery).cleanedQuery
cleanedQuery(rawQuery) ==
    trim(joinTokens(SelectSeq(splitTokens(rawQuery, <<>>, <<>>),
                              LAMBDA tok : ~isOverrideToken(tok))))

\* values of the search box: empty, a word, the word with a domain
\* override, a longer word
RawQueries == {<<>>, <<"n">>, <<"n", " ", "@", "h">>, <<"n", "e">>}

\* a local suggestion (no url) and a crawl result, answering this query
LocalItem(query) == [id |-> <<"l">>, url |-> <<>>, query |-> query]
CrawlItem(query) == [id |-> <<"c">>, url |-> <<"u">>, query |-> query]
LocalAnswers(query) == {<<>>, <<LocalItem(query)>>}
CrawlAnswers(query) == {<<>>, <<CrawlItem(query)>>}
\* answers to CRAWL_STATUS
Statuses == [running : BOOLEAN, pages : 0..1]
NoStatus == [running |-> FALSE, pages |-> 0]

NoTimer == [pending |-> FALSE, query |-> <<>>]
\* a call that waits for an answer: runSearch, or the timer callback of the
\* crawl poll at its first or second await
Call(fn, query, status) == [fn |-> fn, query |-> query, status |-> status]
Step(type, query) == [type |-> type, query |-> query]
Without(seq, i) == SubSeq(seq, 1, i - 1) \o SubSeq(seq, i + 1, Len(seq))

\* query !== lastQuery, the test after each await of the timer callback
queryChanged(s, query) == query # s.lastQuery

\* scheduleCrawlRefresh in site mode: clearTimeout, setTimeout
scheduleCrawlRefresh(query) == [pending |-> TRUE, query |-> query]

\* currentSuggestions.filter((x) => !x.url)
localItems(items) == SelectSeq(items, LAMBDA x : x.url = <<>>)

PopupOpened ==
    /\ popup = <<>>
    /\ search = [opened |-> TRUE, lastQuery |-> <<>>,
                 crawlPollTimer |-> NoTimer, waiting |-> <<>>,
                 submits |-> 0, rendered |-> <<>>,
                 step |-> Step("init", <<>>)]

\* runSearch up to its first await
Submitted(query) ==
    /\ search' = [search EXCEPT !.lastQuery = query,
                                !.waiting = Append(@, Call("runSearch", query,
                                                           NoStatus)),
                                !.submits = @ + 1,
                                !.step = Step("runSearch", query)]
    /\ UNCHANGED popup

RunSearch(raw) ==
    /\ search.submits < MaxSubmits
    /\ Len(search.waiting) < MaxWaiting
    /\ Submitted(cleanedQuery(raw))
    /\ UNCHANGED <<frameVars, vars, probe>>

\* runSearch after Promise.all: renderSuggestions, scheduleCrawlRefresh
RunSearchAnswered(i, local, crawlItems, status) ==
    /\ search.waiting[i].fn = "runSearch"
    /\ popup' = local \o crawlItems
    /\ search' = [search EXCEPT
          !.waiting = Without(@, i),
          !.rendered = search.waiting[i].query,
          !.crawlPollTimer = IF crawlItems = <<>> \/ status.running
                             THEN scheduleCrawlRefresh(search.waiting[i].query)
                             ELSE @,
          !.step = Step("render", search.waiting[i].query)]
    /\ UNCHANGED <<frameVars, vars, probe>>

\* the timer of the crawl poll fires: requestCrawlStatus is sent
PollTimerFires ==
    /\ search.crawlPollTimer.pending
    /\ Len(search.waiting) < MaxWaiting
    /\ search' = [search EXCEPT
          !.crawlPollTimer = NoTimer,
          !.waiting = Append(@, Call("pollStatus",
                                     search.crawlPollTimer.query, NoStatus)),
          !.step = Step("timer", search.crawlPollTimer.query)]
    /\ UNCHANGED <<popup, frameVars, vars, probe>>

\* the timer callback after await requestCrawlStatus()
PollStatusAnswered(i, status) ==
    /\ search.waiting[i].fn = "pollStatus"
    /\ search' =
         IF \/ queryChanged(search, search.waiting[i].query)
            \/ (~status.running /\ status.pages = 0)
         THEN [search EXCEPT
                  !.waiting = Without(@, i),
                  !.step = Step("return", search.waiting[i].query)]
         ELSE [search EXCEPT
                  !.waiting[i] = Call("pollSearch", search.waiting[i].query,
                                      status),
                  !.step = Step("status", search.waiting[i].query)]
    /\ UNCHANGED <<popup, frameVars, vars, probe>>

\* the timer callback after await requestCrawlSuggestions(query)
PollSearchAnswered(i, crawlItems) ==
    /\ search.waiting[i].fn = "pollSearch"
    /\ IF queryChanged(search, search.waiting[i].query)
       THEN /\ search' = [search EXCEPT
                  !.waiting = Without(@, i),
                  !.step = Step("return", search.waiting[i].query)]
            /\ UNCHANGED popup
       ELSE /\ popup' = IF crawlItems # <<>>
                        THEN localItems(popup) \o crawlItems
                        ELSE popup
            /\ search' = [search EXCEPT
                  !.waiting = Without(@, i),
                  !.rendered = IF crawlItems # <<>>
                               THEN search.waiting[i].query ELSE @,
                  !.crawlPollTimer =
                      IF search.waiting[i].status.running
                      THEN scheduleCrawlRefresh(search.waiting[i].query)
                      ELSE @,
                  !.step = Step(IF crawlItems # <<>> THEN "render"
                                ELSE "return",
                                search.waiting[i].query)]
    /\ UNCHANGED <<frameVars, vars, probe>>

PopupInit ==
    /\ ServiceWorkerLoaded
    /\ probe = NoProbe
    /\ location = <<>>
    /\ document = <<>>
    /\ isIndexed = <<>>
    /\ frameIndex = <<>>
    /\ counter = <<>>
    /\ loaded = <<>>
    /\ timers = <<>>
    /\ edits = 0
    /\ ixEvent = NoIxEvent
    /\ PopupOpened

PopupNext ==
    \/ \E raw \in RawQueries : RunSearch(raw)
    \/ \E i \in 1..Len(search.waiting) :
         \E local \in LocalAnswers(search.waiting[i].query),
            crawlItems \in CrawlAnswers(search.waiting[i].query),
            status \in Statuses :
            RunSearchAnswered(i, local, crawlItems, status)
    \/ PollTimerFires
    \/ \E i \in 1..Len(search.waiting), status \in Statuses :
         PollStatusAnswered(i, status)
    \/ \E i \in 1..Len(search.waiting) :
         \E crawlItems \in CrawlAnswers(search.waiting[i].query) :
            PollSearchAnswered(i, crawlItems)

PopupSpec == PopupInit /\ [][PopupNext]_allVars


(***************************************************************************)
(* Scope key probe of the popup and the background: one URL text, which    *)
(* may not parse, is keyed by computeScopeKey and by makeScopeKey.         *)
(***************************************************************************)
\* a text that new URL() rejects
Unparsable == Url("", <<"a">>)
TabUrlTexts == ProbeUrls \cup {Unparsable}

KeyProbeInit ==
    \E u \in TabUrlTexts :
        probe = [applied |-> FALSE, u |-> u,
                 popupKey |-> NullKey, backgroundKey |-> NullKey]

\* the popup computes scopeKey for the tab's URL (getActiveTab) and the
\* background keys the startUrl of its CRAWL_START
BothKeysMade ==
    /\ ~probe.applied
    /\ probe' = [probe EXCEPT !.applied = TRUE,
                              !.popupKey = computeScopeKey(probe.u),
                              !.backgroundKey = makeScopeKey(probe.u)]
    /\ UNCHANGED <<vars, pageVars>>

KeyInit == ServiceWorkerLoaded /\ NoPages /\ KeyProbeInit
KeyNext == BothKeysMade
KeySpec == KeyInit /\ [][KeyNext]_allVars


(***************************************************************************)
(* Vocabulary of the properties.                                           *)
(***************************************************************************)
SessionIds == 1..Len(sessions)
\* sessions started and not yet resolved, for a scope key
ActiveFor(key) ==
    {i \in SessionIds : sessions[i].scopeKey = key /\ Active(sessions[i])}
\* q is what remains of p after removing entries from its front
IsSuffix(q, p) ==
    /\ Len(q) <= Len(p)
    /\ q = SubSeq(p, Len(p) - Len(q) + 1, Len(p))

(***************************************************************************)
(* C1: in every crawl session, whatever the interleaving of worker steps   *)
(* and fetch completions, the count of pages the session has inserted      *)
(* (pagesThisSession) never exceeds MAX_PAGES_PER_CRAWL.                   *)
(***************************************************************************)
C1_PageCapRespected ==
    \A i \in SessionIds :
       sessions[i].pagesThisSession <= MAX_PAGES_PER_CRAWL

\* a session that stopped at the cap with work left on its queue
C1_Witness ==
    \E i \in SessionIds :
       /\ sessions[i].pagesThisSession = MAX_PAGES_PER_CRAWL
       /\ sessions[i].queue # <<>>
       /\ sessions[i].resolved

(***************************************************************************)
(* C2: for every sequence of CRAWL_START messages, completed tab updates   *)
(* and session completions, at most one crawl session per scope key is     *)
(* active (started and not yet resolved) at any time.                      *)
(***************************************************************************)
C2_OneActiveSessionPerScope ==
    \A key \in ScopeKeys : Cardinality(ActiveFor(key)) <= 1

(***************************************************************************)
(* C3: for every seed URL, with or without a first path segment, every URL *)
(* on the work queue of a session has the seed's host and first path       *)
(* segment: its scope key equals the scope key of the seed.                *)
(***************************************************************************)
C3_QueueWithinSeedScope ==
    \A i \in SessionIds :
       \A n \in 1..Len(sessions[i].queue) :
          makeScopeKey(sessions[i].queue[n]) = makeScopeKey(sessions[i].seed)

(***************************************************************************)
(* C4: every URL stored in a scope's page map, the seed of a session       *)
(* included, was fetched with a successful HTML-shaped response and        *)
(* satisfies inScope for that scope.                                       *)
(***************************************************************************)
C4_IndexedPagesFetchedAndInScope ==
    \A key \in DOMAIN pageIndex :
       \A url \in pageIndex[key] :
          /\ url \in htmlFetched
          /\ \A seed \in Urls :
                makeScopeKey(seed) = key => inScope(url, scopeFromUrl(seed))

(***************************************************************************)
(* C5: within one crawl session no URL is fetched more than once: two      *)
(* fetches of one URL are never in flight together, and a URL whose fetch  *)
(* failed is never fetched again by that session, whatever the             *)
(* interleaving and however many duplicate entries the queue holds.        *)
(***************************************************************************)
C5_NoRefetchWithinSession ==
    \A i \in SessionIds :
       /\ ~sessions[i].refetched
       /\ \A w1, w2 \in InFlight(sessions[i]) :
             w1 # w2 => sessions[i].fetching[w1] # sessions[i].fetching[w2]

\* a fetch of the session is in flight while the queue holds a duplicate
\* entry for the same URL
C5_Witness ==
    \E i \in SessionIds :
       \E w \in InFlight(sessions[i]) :
          \E n \in 1..Len(sessions[i].queue) :
             sessions[i].queue[n] = sessions[i].fetching[w]

(***************************************************************************)
(* C6: assuming every fetch eventually completes, fails or times out,      *)
(* every started crawl session eventually resolves, and a session resolves *)
(* only when its queue is empty with no fetch in flight or when the        *)
(* per-session page cap has been reached.                                  *)
(***************************************************************************)
ResolvesNow(i) ==
    /\ sessions'[i].resolved
    /\ (i > Len(sessions) \/ ~sessions[i].resolved)

C6_SessionTerminates ==
    /\ [][\A i \in 1..Len(sessions') :
            ResolvesNow(i) =>
               \/ /\ sessions'[i].queue = <<>>
                  /\ InFlight(sessions'[i]) = {}
               \/ sessions'[i].pagesThisSession >= MAX_PAGES_PER_CRAWL]_vars
    /\ \A i \in 1..MaxFairSessions :
          [](Len(sessions) >= i
                => <>(Len(sessions) >= i /\ sessions[i].resolved))

\* a session that fetched pages, some after a failed fetch, and resolved
C6_Witness ==
    \E i \in SessionIds :
       /\ sessions[i].resolved
       /\ Cardinality(sessions[i].fetched) >= 2
       /\ sessions[i].pagesThisSession < MAX_PAGES_PER_CRAWL

(***************************************************************************)
(* C7: CRAWL_STATUS(scopeKey) reports running = true if and only if a      *)
(* crawl session for that scope key is active (started and not yet         *)
(* resolved), after any sequence of start requests, tab navigations and    *)
(* session completions.                                                    *)
(***************************************************************************)
C7_StatusRunningIffActive ==
    event.type = "CRAWL_STATUS" =>
       (event.reply.running <=> ActiveFor(event.key) # {})

(***************************************************************************)
(* C8: a CRAWL_START whose start URL has the scope key of the tracked      *)
(* handle starts no session, leaves the handle and every page map          *)
(* unchanged and answers {ok, running}; any other CRAWL_START starts one   *)
(* session for the start URL, tracks it and answers {ok, started}.         *)
(***************************************************************************)
C8_CrawlStartEffect ==
    [][event'.type = "CRAWL_START" =>
         IF currentCrawl # NoCrawl /\ currentCrawl.scopeKey = event'.key
         THEN /\ sessions' = sessions
              /\ currentCrawl' = currentCrawl
              /\ pageIndex' = pageIndex
              /\ event'.reply = Reply(TRUE, TRUE, FALSE, 0)
         ELSE /\ Len(sessions') = Len(sessions) + 1
              /\ SubSeq(sessions', 1, Len(sessions)) = sessions
              /\ sessions'[Len(sessions')].scopeKey = event'.key
              /\ currentCrawl' = [scopeKey |-> event'.key,
                                  sid |-> Len(sessions')]
              /\ event'.reply = Reply(TRUE, FALSE, TRUE, 0)]_vars

\* a start request was answered "running" while a handle was tracked
C8_Witness ==
    /\ event.type = "CRAWL_START"
    /\ event.reply.running
    /\ currentCrawl # NoCrawl
    /\ Len(sessions) >= 2

(***************************************************************************)
(* C9: after a completed tab navigation to a URL with scope key S, a       *)
(* tracked handle for another scope has been discarded and, when the       *)
(* handler returns, the tracked handle has scope key S with a crawl        *)
(* session for S started; nothing is started if a handle for S was         *)
(* tracked already.                                                        *)
(***************************************************************************)
C9_TabNavigationTracksScope ==
    [][event'.type = "TabComplete" =>
         /\ currentCrawl' # NoCrawl
         /\ currentCrawl'.scopeKey = event'.key
         /\ IF currentCrawl # NoCrawl /\ currentCrawl.scopeKey = event'.key
            THEN /\ sessions' = sessions
                 /\ currentCrawl' = currentCrawl
            ELSE /\ Len(sessions') > Len(sessions)
                 /\ SubSeq(sessions', 1, Len(sessions)) = sessions
                 /\ \A i \in Len(sessions) + 1..Len(sessions') :
                       sessions'[i].scopeKey = event'.key
                 /\ currentCrawl'.sid \in Len(sessions) + 1..Len(sessions')]_vars

\* the tab completed a navigation into a scope while a session of another
\* scope, started earlier, is still running
C9_Witness ==
    /\ event.type = "TabComplete"
    /\ currentCrawl # NoCrawl
    /\ currentCrawl.scopeKey = event.key
    /\ \E i \in SessionIds :
          /\ i < currentCrawl.sid
          /\ sessions[i].scopeKey # event.key
          /\ Active(sessions[i])

(***************************************************************************)
(* C10: a fetch that fails (network error, timeout, non-2xx status,        *)
(* non-HTML body) is not fatal: it inserts no page record, does not count  *)
(* towards the per-session cap, enqueues no link, and the session goes on  *)
(* to process the rest of its queue.                                       *)
(***************************************************************************)
C10_FailedFetchNotFatal ==
    [][event'.type = "FetchFailed" =>
         LET s == sessions[event'.sid]
             t == sessions'[event'.sid]
         IN /\ pageIndex' = pageIndex
            /\ t.pagesThisSession = s.pagesThisSession
            /\ IsSuffix(t.queue, s.queue)
            /\ \A url \in t.visited \ s.visited :
                  \E w \in Workers : t.fetching[w] = url
            /\ \/ InFlight(t) # {}
               \/ /\ t.queue = <<>>
                  /\ t.resolved]_vars

\* after a failed fetch the session is fetching the next URL of its queue
C10_Witness ==
    \E i \in SessionIds :
       /\ InFlight(sessions[i]) # {}
       /\ \E url \in sessions[i].fetched :
             /\ url \notin IndexOf(pageIndex, sessions[i].scopeKey)
             /\ \A w \in Workers : sessions[i].fetching[w] # url

(***************************************************************************)
(* Vocabulary of the scoring properties: how a query matches an item.      *)
(***************************************************************************)
LoweredText(item) == toLowerCase(haystackOf(item))
IsExactMatch(q, item) == LoweredText(item) = q
IsPrefixMatch(q, item) ==
    StartsWith(LoweredText(item), q) /\ LoweredText(item) # q
IsInteriorMatch(q, item) == indexOf(LoweredText(item), q) >= 1
MatchPosition(q, item) == indexOf(LoweredText(item), q)
\* the ordering of two interior matches by position, with the cap at 50
LaterScoresLess(q, a, sa, b, sb) ==
    (IsInteriorMatch(q, a) /\ IsInteriorMatch(q, b)
        /\ MatchPosition(q, a) < MatchPosition(q, b))
    => IF MatchPosition(q, a) >= 50 THEN sa = sb ELSE sa > sb
ExactPrefixInterior(q, a, sa, b, sb) ==
    /\ (IsExactMatch(q, a) /\ IsPrefixMatch(q, b)) => sa > sb
    /\ (IsPrefixMatch(q, a) /\ IsInteriorMatch(q, b)) => sa > sb

\* C20 as stated: for any two entries, headings or not, and a non-empty
\* query, exact beats prefix, prefix beats interior substring, and of two
\* interior substring matches the later one scores strictly less, up to
\* position 50, from which on the score is constant.
C20_AsStated ==
    (probe.applied /\ probe.query # <<>>) =>
        /\ ExactPrefixInterior(probe.query, probe.a, probe.scoreA,
                               probe.b, probe.scoreB)
        /\ LaterScoresLess(probe.query, probe.a, probe.scoreA,
                           probe.b, probe.scoreB)

\* C20, amended: exact beats prefix and prefix beats interior substring for
\* any two entries; the later of two interior substring matches scores
\* strictly less (constant from position 50 on) when both entries are
\* headings or both are not, the heading bonus of 5 being added on top.
C20_ScoreOrdering ==
    (probe.applied /\ probe.query # <<>>) =>
        /\ ExactPrefixInterior(probe.query, probe.a, probe.scoreA,
                               probe.b, probe.scoreB)
        /\ (isHeadingLevel(probe.a.level) = isHeadingLevel(probe.b.level))
            => LaterScoresLess(probe.query, probe.a, probe.scoreA,
                               probe.b, probe.scoreB)

C20_Witness ==
    /\ probe.applied
    /\ probe.query # <<>>
    /\ probe.a.level = probe.b.level
    /\ MatchPosition(probe.query, probe.a) = 50
    /\ MatchPosition(probe.query, probe.b) = 52
    /\ probe.scoreA = probe.scoreB

(***************************************************************************)
(* Vocabulary of the indexer properties.                                   *)
(***************************************************************************)
Frames == DOMAIN document
Positions(f) == 1..Len(document[f])
\* position in the frame's document of the element with this uid, 0 if gone
PositionOf(f, uid) ==
    IF \E i \in Positions(f) : document[f][i].uid = uid
    THEN CHOOSE i \in Positions(f) : document[f][i].uid = uid
    ELSE 0
\* the answer of the step just taken is a list of suggestions of a frame
Answered == ixEvent.type = "PAGE_JUMP_GET_SUGGESTIONS"

\* C11: identifiers are per-element: no two distinct elements of a document
\* carry the same identifier marker, and looking up the identifier of an
\* entry of a fresh index finds the element the entry was built from.
C11_IdentifiersPerElement ==
    \A f \in Frames :
        /\ \A i, j \in Positions(f) :
              (i # j /\ document[f][i].marker # <<>>)
                  => document[f][i].marker # document[f][j].marker
        /\ isIndexed[f] =>
              \A k \in 1..Len(frameIndex[f]) :
                  querySelector(document[f], frameIndex[f][k].id)
                      = PositionOf(f, frameIndex[f][k].node)

\* an element of the frame keeps, in the next state, the marker it has
KeepsMarker(f, i) ==
    \A j \in 1..Len(document'[f]) :
        document'[f][j].uid = document[f][i].uid
            => document'[f][j].marker = document[f][i].marker
\* the entries that a rebuild made for elements that already had a marker
\* carry that marker
RecordedUnderMarker(f) ==
    \A k \in 1..Len(frameIndex'[f]) :
        LET i == PositionOf(f, frameIndex'[f][k].node)
        IN (i # 0 /\ document[f][i].marker # <<>>)
               => frameIndex'[f][k].id = document[f][i].marker

C13_QualifierRoundTrip ==
    Answered =>
        \A k \in 1..Len(ixEvent.suggestions) :
            LET s == ixEvent.suggestions[k]
                f == ixEvent.frame
            IN /\ rawIdOf(s.id) = s.rawId
               /\ scrollToId(stateOf(f), location[f], s.id).ok

\* the popup has just collected the answers of all frames
Collected == ixEvent.type = "requestLocalSuggestions"

\* C14: suggestions of two distinct frames of the tab never carry the same
\* frame-qualified id, so the popup's de-duplication by id keeps, for every
\* frame, the suggestions of that frame (up to MAX_RESULTS in total).
C14_QualifiedIdsDistinctAcrossFrames ==
    Collected =>
        /\ \A i, j \in 1..Len(ixEvent.suggestions) :
              ixEvent.suggestions[i].frameId # ixEvent.suggestions[j].frameId
                  => ixEvent.suggestions[i].id # ixEvent.suggestions[j].id
        /\ Len(ixEvent.suggestions) <= MAX_RESULTS
              => popup = ixEvent.suggestions

\* some element of the document carries the identifier as its marker
Carried(doc, rawId) ==
    \E i \in 1..Len(doc) : doc[i].marker # <<>> /\ doc[i].marker = rawId
\* the highlight class of every element, by uid
HighlightOf(doc) == {<<doc[i].uid, doc[i].highlighted>> : i \in 1..Len(doc)}

\* C15: a PAGE_JUMP_SCROLL_TO with any string always completes: when no
\* element carries the raw identifier it rebuilds exactly once and looks up
\* again; it answers true exactly when an element carrying the identifier
\* was found, which is then scrolled to and highlighted, and on a second
\* miss it answers false and scrolls to and highlights nothing.
C15_ScrollToIdOutcome ==
    [][ixEvent'.type = "PAGE_JUMP_SCROLL_TO" =>
          LET f == ixEvent'.frame
              rawId == rawIdOf(ixEvent'.id)
          IN /\ ixEvent'.rebuilt =
                    IF Carried(document[f], rawId) THEN 0 ELSE 1
             /\ ixEvent'.ok = Carried(document'[f], rawId)
             /\ ~ixEvent'.ok =>
                    /\ ixEvent'.target = 0
                    /\ timers' = timers
                    /\ HighlightOf(document'[f]) = HighlightOf(document[f])
             /\ ixEvent'.ok =>
                    /\ \E j \in 1..Len(document'[f]) :
                          /\ document'[f][j].uid = ixEvent'.target
                          /\ document'[f][j].marker = rawId
                          /\ document'[f][j].highlighted
                    /\ timers'[f] = Append(timers[f], ixEvent'.target)
      ]_allVars

\* a second miss: the forced rebuild ran and the answer is false
C15_Witness ==
    /\ ixEvent.type = "PAGE_JUMP_SCROLL_TO"
    /\ ixEvent.rebuilt = 1
    /\ ~ixEvent.ok
    /\ frameIndex[1] # <<>>

\* C16: whenever a PAGE_JUMP_GET_SUGGESTIONS request is answered, the index
\* it is answered from equals the result of a full buildIndex on the
\* document as it is at that moment, whatever child-list, character-data or
\* attribute changes preceded the request.
C16_AnsweredFromCurrentIndex ==
    Answered =>
        LET f == ixEvent.frame
        IN frameIndex[f]
               = buildIndex(document[f], location[f].pathname).index

\* C17: a mutation record only marks the index stale (for a child-list or
\* character-data change) and rebuilds nothing; a PAGE_JUMP_GET_SUGGESTIONS
\* on a stale index rebuilds exactly once before it answers, however many
\* changes came before, and on a fresh index it does not rebuild; no step
\* of the indexer itself (writing a marker, adding or removing the
\* highlight class) makes a fresh index stale.
C17_StaleFlagDiscipline ==
    [][LET f == ixEvent'.frame
       IN /\ ixEvent'.type = "mutation" =>
                /\ ixEvent'.rebuilt = 0
                /\ frameIndex' = frameIndex
                /\ counter' = counter
                /\ ixEvent'.change \in {"childList", "characterData"}
                       => ~isIndexed'[f]
          /\ ixEvent'.type = "PAGE_JUMP_GET_SUGGESTIONS" =>
                /\ ixEvent'.rebuilt = IF isIndexed[f] THEN 0 ELSE 1
                /\ isIndexed[f] => frameIndex' = frameIndex
                /\ isIndexed'[f]
          /\ ixEvent'.type \in {"startup", "PAGE_JUMP_SCROLL_TO", "timer"} =>
                /\ isIndexed[f] => isIndexed'[f]
                /\ ixEvent'.rebuilt = 1 => isIndexed'[f]
      ]_allVars

\* a request answered after two changes of the page, with one rebuild that
\* wrote a marker
C17_Witness ==
    /\ Answered
    /\ edits = 2
    /\ ixEvent.rebuilt = 1
    /\ counter[1] = 1
    /\ isIndexed[1]

\* positions of the headings that precede position i in the document
HeadingsBefore(f, i) ==
    {h \in 1..(i - 1) : isHeadingElement(document[f][h])}

\* C18: the entries of a fresh index are in document order, and the
\* parentTitle of every paragraph or link entry is the normalized text of
\* the nearest heading that precedes its element in document order.
C18_DocumentOrderAndNearestHeading ==
    \A f \in Frames :
        isIndexed[f] =>
            LET idx == frameIndex[f]
                pos(k) == PositionOf(f, idx[k].node)
            IN /\ \A k \in 1..Len(idx) : pos(k) # 0
               /\ \A k \in 1..(Len(idx) - 1) : pos(k) < pos(k + 1)
               /\ \A k \in 1..Len(idx) :
                     idx[k].level \in {<<"p">>, <<"a">>} =>
                        /\ HeadingsBefore(f, pos(k)) # {}
                        /\ idx[k].parentTitle = normalizeText(
                              document[f][SetMax(HeadingsBefore(f, pos(k)))]
                                  .text)

\* a link indexed under the second of two headings
C18_Witness ==
    /\ isIndexed[1]
    /\ Len(frameIndex[1]) >= 3
    /\ frameIndex[1][1].title = TIntro
    /\ frameIndex[1][3].level = <<"a">>
    /\ frameIndex[1][3].parentTitle = <<"U", "s", "e", " ", "i", "t">>

\* C19: no index contains a paragraph entry whose normalized text is shorter
\* than 20 characters, a paragraph or link entry whose element precedes the
\* first heading, or a link entry with empty composite text; so every
\* paragraph or link entry has a non-empty searchText.
C19_NoShortOrOrphanEntries ==
    \A f \in Frames :
        \A k \in 1..Len(frameIndex[f]) :
            LET e == frameIndex[f][k]
                i == PositionOf(f, e.node)
            IN /\ e.level = <<"p">> => Len(e.title) >= 20
               /\ e.level = <<"a">> => e.title # <<>>
               /\ e.level \in {<<"p">>, <<"a">>} => e.searchText # <<>>
               /\ (isIndexed[f] /\ e.level \in {<<"p">>, <<"a">>}) =>
                     HeadingsBefore(f, i) # {}
               /\ (isIndexed[f] /\ e.level = <<"p">>) =>
                     Len(normalizeText(document[f][i].text)) >= 20

\* a fresh index of a document that has a paragraph before its first
\* heading and a 19-character paragraph after it
C19_Witness ==
    /\ isIndexed[1]
    /\ frameIndex[1] # <<>>
    /\ document[1][1].tag = <<"p">>
    /\ \E i \in Positions(1) :
          /\ document[1][i].tag = <<"p">>
          /\ document[1][i].text = TShort
          /\ HeadingsBefore(1, i) # {}

\* the score that scoreItem gives an entry for a query as getSuggestions
\* receives it
ScoreFor(query, item) == scoreItem(toLowerCase(normalizeText(query)), item)

\* the position of an entry in an index (an element has one entry at most)
EntryPosition(idx, item) == CHOOSE k \in 1..Len(idx) : idx[k] = item

\* C21: getSuggestions is deterministic and stable: with no mutation in
\* between, a second call with the same query and limit returns the same
\* ordered list as the first; the list is sorted by non-increasing score,
\* entries of equal score keep their document order, and a positive limit
\* bounds its length.
C21_DeterministicAndStable ==
    \A f \in Frames : \A query \in Queries, limit \in Limits :
        LET first == getSuggestions(stateOf(f), location[f], query, limit)
            second == getSuggestions(first.st, location[f], query, limit)
            idx == first.st.index
            ranked == rankedOf(idx, query, limit)
        IN /\ second.suggestions = first.suggestions
           /\ second.st.index = idx
           /\ first.suggestions =
                 suggestionsOfRanked(ranked, getFrameKey(location[f]))
           /\ \A i \in 1..Len(ranked) : \A j \in (i + 1)..Len(ranked) :
                 /\ ScoreFor(query, ranked[i].item)
                       >= ScoreFor(query, ranked[j].item)
                 /\ ScoreFor(query, ranked[i].item)
                       = ScoreFor(query, ranked[j].item)
                    => EntryPosition(idx, ranked[i].item)
                          < EntryPosition(idx, ranked[j].item)
           /\ limit > 0 => Len(first.suggestions) <= limit

\* an answer to the empty query that lists a heading in front of a paragraph
\* and a link of equal score, from an index that is not stale
C21_Witness ==
    /\ Answered
    /\ isIndexed[1]
    /\ ixEvent.id = <<>>
    /\ Len(ixEvent.suggestions) >= 3
    /\ \E i \in 1..Len(ixEvent.suggestions) :
          /\ i + 1 <= Len(ixEvent.suggestions)
          /\ ixEvent.suggestions[i].level = <<"p">>
          /\ ixEvent.suggestions[i + 1].level = <<"a">>
    /\ ixEvent.suggestions = getSuggestions(stateOf(1), location[1], <<>>,
                                            MAX_RESULTS).suggestions

\* a query that getSuggestions reduces to the empty string
IsBlank(query) == normalizeText(query) = <<>>

\* the entries of an index: every heading in index order, then every other
\* entry in index order
HeadingsFirst(idx) ==
    SelectSeq(idx, LAMBDA e : isHeadingLevel(e.level))
    \o SelectSeq(idx, LAMBDA e : ~isHeadingLevel(e.level))

\* the suggestions that list all entries of the index, headings first
AllHeadingsFirst(idx, loc) ==
    [i \in 1..Len(idx) |-> Suggestion(getFrameKey(loc), HeadingsFirst(idx)[i])]

\* C22: for an empty or whitespace-only query every entry of the index has
\* the score 1 + base (6 for a heading, 1 otherwise), and getSuggestions
\* without a limit returns all entries: every heading in document order,
\* then every other entry in document order.
C22_BlankQueryListsAll ==
    \A f \in Frames :
        /\ \A query \in {q \in Queries : IsBlank(q)} :
              LET r == getSuggestions(stateOf(f), location[f], query, 0)
              IN /\ \A k \in 1..Len(r.st.index) :
                       ScoreFor(query, r.st.index[k]) =
                          1 + (IF isHeadingLevel(r.st.index[k].level)
                               THEN 5 ELSE 0)
                 /\ r.suggestions = AllHeadingsFirst(r.st.index, location[f])
        /\ (Answered /\ ixEvent.frame = f /\ IsBlank(ixEvent.id)
            /\ Len(ixEvent.suggestions) >= 2)
           => ixEvent.suggestions = AllHeadingsFirst(frameIndex[f], location[f])

\* the answer to a blank query from an index whose entries are a heading, a
\* paragraph, a heading and a link: both headings come first
C22_Witness ==
    /\ Answered
    /\ ixEvent.id = <<" ", "\t">>
    /\ Len(frameIndex[1]) = 4
    /\ [k \in 1..4 |-> isHeadingLevel(frameIndex[1][k].level)]
          = <<TRUE, FALSE, TRUE, FALSE>>
    /\ [k \in 1..4 |-> ixEvent.suggestions[k].rawId]
          = <<frameIndex[1][1].id, frameIndex[1][3].id,
              frameIndex[1][2].id, frameIndex[1][4].id>>

\* the frame's document is a heading followed by a paragraph
HeadingThenParagraph(f) ==
    /\ Len(document[f]) = 2
    /\ isHeadingElement(document[f][1])
    /\ document[f][2].tag = <<"p">>

\* the frame has answered a query that is the text of its second element,
\* a paragraph of 20 to 120 characters once normalized
AskedForParagraph(f) ==
    /\ HeadingThenParagraph(f)
    /\ Answered
    /\ ixEvent.frame = f
    /\ ixEvent.id = document[f][2].text
    /\ Len(normalizeText(document[f][2].text)) \in MinParagraphLength..DisplayMax

\* the first suggestion is the paragraph's, titled H, an em dash, P
ParagraphOnTop(f) ==
    /\ ixEvent.suggestions # <<>>
    /\ ixEvent.suggestions[1].level = <<"p">>
    /\ ixEvent.suggestions[1].rawId = document[f][2].marker
    /\ ixEvent.suggestions[1].title =
          normalizeText(document[f][1].text) \o <<" ", EmDash, " ">>
             \o normalizeText(document[f][2].text)

\* the heading's text is not empty and does not hold the characters of the
\* query in order
HeadingApart(f) ==
    /\ normalizeText(document[f][1].text) # <<>>
    /\ matchedInOrder(toLowerCase(normalizeText(document[f][1].text)),
                      toLowerCase(normalizeText(document[f][2].text)), 0)
          < Len(normalizeText(document[f][2].text))

\* C23 as stated: for a document made of one heading with text H followed
\* by one paragraph whose normalized text P has 20 to 120 characters,
\* getSuggestions(P) returns the paragraph's entry first, with the display
\* title H, em dash, P; for every H.
C23_AsStated ==
    \A f \in Frames : AskedForParagraph(f) => ParagraphOnTop(f)

\* C23: the same, for a heading whose text is not empty and does not hold
\* the characters of P in order (so that the heading itself does not match
\* the query).
C23_ParagraphOnTop ==
    \A f \in Frames :
        (AskedForParagraph(f) /\ HeadingApart(f)) => ParagraphOnTop(f)

\* the heading Intro and a paragraph of 120 characters, asked for and
\* answered with the paragraph on top
C23_Witness ==
    /\ AskedForParagraph(1)
    /\ HeadingApart(1)
    /\ document[1][1].text = TIntro
    /\ Len(document[1][2].text) = DisplayMax
    /\ ParagraphOnTop(1)

\* the pages of the scope that the probe's search addresses
Addressed == pagesOfScope(probe.pageIndex, probe.scopeKey)
Searched == probe.applied /\ "results" \in DOMAIN probe

\* C24: CRAWL_SEARCH with an empty query string returns an empty result
\* list, for every scope and every content of its page map.
C24_EmptyQueryNoResults ==
    (Searched /\ probe.query = <<>>) => probe.results = <<>>

\* an empty query has been answered for a scope that holds pages
C24_Witness ==
    /\ Searched
    /\ probe.query = <<>>
    /\ Len(Addressed) >= 2
    /\ probe.results = <<>>

\* the stored page of a URL of the addressed scope
PageAt(url) == Addressed[CHOOSE k \in 1..Len(Addressed) : Addressed[k].url = url]
ScoreOfPage(page) == score(probe.query, page.text, page.title)
\* the lowercased query occurs in the lowercased text
Occurs(query, text) ==
    \E k \in 0..(Len(text) - Len(query)) :
        SubSeq(toLowerCase(text), k + 1, k + Len(query)) = toLowerCase(query)
ResultUrls == {probe.results[k].url : k \in 1..Len(probe.results)}
StoredUrls == {Addressed[k].url : k \in 1..Len(Addressed)}
Matching == {k \in 1..Len(Addressed) : ScoreOfPage(Addressed[k]) > 0}

\* C25: CRAWL_SEARCH returns only pages of the addressed scope whose score
\* is positive (the lowercased query is not empty and occurs in the title
\* or in the text), each once, ordered by non-increasing score, and at most
\* 20 of them (all matching pages when these are fewer); a page left out
\* never has a higher score than one returned.
C25_SearchResults ==
    Searched =>
        /\ ResultUrls \subseteq StoredUrls
        /\ Cardinality(ResultUrls) = Len(probe.results)
        /\ Len(probe.results) = Min(SearchCap, Cardinality(Matching))
        /\ \A k \in 1..Len(Addressed) :
              (ScoreOfPage(Addressed[k]) > 0)
              <=> /\ probe.query # <<>>
                  /\ \/ Occurs(probe.query, Addressed[k].title)
                     \/ Occurs(probe.query, Addressed[k].text)
        /\ \A k \in 1..Len(probe.results) :
              /\ ScoreOfPage(PageAt(probe.results[k].url)) > 0
              /\ \A j \in (k + 1)..Len(probe.results) :
                    ScoreOfPage(PageAt(probe.results[k].url))
                       >= ScoreOfPage(PageAt(probe.results[j].url))
        /\ \A u \in StoredUrls \ ResultUrls : \A v \in ResultUrls :
              ScoreOfPage(PageAt(u)) <= ScoreOfPage(PageAt(v))

\* 22 stored pages match the query, 20 are returned and the two of lowest
\* score, stored first, are left out
C25_Witness ==
    /\ Searched
    /\ Cardinality(Matching) = SearchCap + 2
    /\ Len(probe.results) = SearchCap
    /\ Addressed[1].url \notin ResultUrls
    /\ Addressed[2].url \notin ResultUrls

\* text.slice(max(0, i - 20), min(text.length, i + 80)) around the first
\* occurrence i of the query
FirstOccurrence(query, text) == indexOf(toLowerCase(text), toLowerCase(query))
Window(query, text) ==
    SubSeq(text, Max(0, FirstOccurrence(query, text) - FragmentBefore) + 1,
           Min(Len(text), FirstOccurrence(query, text) + FragmentAfter))
\* w is a run of characters of the text that starts at most 20 characters
\* before the first occurrence and ends at most 80 after its start
WithinWindow(w, query, text) ==
    \E a \in Max(0, FirstOccurrence(query, text) - FragmentBefore)
                ..Len(text) :
        /\ a + Len(w) <= Min(Len(text),
                             FirstOccurrence(query, text) + FragmentAfter)
        /\ SubSeq(text, a + 1, a + Len(w)) = w

\* C26: for every CRAWL_SEARCH result, the fragment is the empty string if
\* and only if the query does not occur (case-insensitively) in the page's
\* stored text; otherwise it is the text-fragment prefix followed by the
\* encoding of the window that starts at most 20 characters before the
\* first occurrence and ends at most 80 characters after its start: the
\* slice between these bounds, less the whitespace at its ends.
C26_FragmentOfResult ==
    Searched =>
        \A k \in 1..Len(probe.results) :
            LET r == probe.results[k]
                text == PageAt(r.url).text
                w == normalizeText(Window(probe.query, text))
            IN /\ r.fragment = <<>> <=> ~Occurs(probe.query, text)
               /\ Occurs(probe.query, text) =>
                     /\ r.fragment = FragmentPrefix \o encodeURIComponent(w)
                     /\ WithinWindow(w, probe.query, text)
                     /\ Len(w) >= Len(Window(probe.query, text)) - 2

\* a result whose match lies 30 characters into a text of 152 (the window
\* is cut on both sides and loses the space at its start), and a result
\* whose text does not hold the query
C26_Witness ==
    /\ Searched
    /\ \E k \in 1..Len(probe.results) :
          /\ FirstOccurrence(probe.query, PageAt(probe.results[k].url).text)
                > FragmentBefore
          /\ Len(PageAt(probe.results[k].url).text)
                > FirstOccurrence(probe.query,
                                  PageAt(probe.results[k].url).text)
                  + FragmentAfter
          /\ Len(probe.results[k].fragment)
                = Len(FragmentPrefix) + FragmentBefore + FragmentAfter - 1
    /\ \E k \in 1..Len(probe.results) : probe.results[k].fragment = <<>>

\* the first non-empty segment of a path name: the characters from the
\* first one that is no slash up to the next slash; <<>> when there is none
FirstSegment(path) ==
    LET letters == {i \in 1..Len(path) : path[i] # "/"}
        from == SetMin(letters)
        stops == {i \in from..Len(path) : path[i] = "/"}
    IN IF letters = {} THEN <<>>
       ELSE SubSeq(path, from,
                   IF stops = {} THEN Len(path) ELSE SetMin(stops) - 1)

KeysMade == probe.applied /\ "keyU" \in DOMAIN probe

\* C27: for all parseable URLs u and v, makeScopeKey(u) equals
\* makeScopeKey(v) if and only if u and v have the same host and the same
\* first non-empty path segment (or neither has one); the key has the form
\* host|/segment/ or host|/.
C27_ScopeKeyIdentifiesScope ==
    KeysMade =>
        /\ (probe.keyU = probe.keyV)
           <=> /\ probe.u.host = probe.v.host
               /\ FirstSegment(probe.u.path) = FirstSegment(probe.v.path)
        /\ probe.keyU =
              IF FirstSegment(probe.u.path) = <<>>
              THEN <<probe.u.host, "|", "/">>
              ELSE <<probe.u.host, "|", "/">>
                      \o FirstSegment(probe.u.path) \o <<"/">>

\* two different path names with the same first segment get one key
C27_Witness ==
    /\ KeysMade
    /\ probe.u = Url("h1", <<"/", "a", "/", "a">>)
    /\ probe.v = Url("h1", <<"/", "/", "a", "/">>)
    /\ probe.keyU = probe.keyV
    /\ probe.keyU = <<"h1", "|", "/", "a", "/">>

\* C28: a scope's page map is append/overwrite-only: in every step (of a
\* session, a start request, a navigation, a status or a search request)
\* every scope keeps its Map and every URL stays in it, CRAWL_STATUS and
\* CRAWL_SEARCH leave the page maps as they are, and the page count that
\* CRAWL_STATUS would report for a scope does not decrease.
C28_PageMapOnlyGrows ==
    [][/\ DOMAIN pageIndex \subseteq DOMAIN pageIndex'
       /\ \A key \in DOMAIN pageIndex : pageIndex[key] \subseteq pageIndex'[key]
       /\ \A key \in StatusKeys :
             Cardinality(IndexOf(pageIndex', key))
                >= Cardinality(IndexOf(pageIndex, key))
       /\ event'.type \in {"CRAWL_STATUS", "CRAWL_SEARCH"}
             => pageIndex' = pageIndex]_vars

\* a search is answered while a scope holds two pages and a third session
\* has been started
C28_Witness ==
    /\ event.type = "CRAWL_SEARCH"
    /\ Len(sessions) = MaxSessions
    /\ \E key \in DOMAIN pageIndex : Cardinality(pageIndex[key]) >= 2


\* the then-callback of session sid runs in this step
Resolves(sid) == event'.type = "then" /\ event'.sid = sid

\* C29: when a crawl session resolves, the tracked handle is cleared only
\* if it tracks that very session; a handle that tracks another session
\* (for another scope or for the same scope) is left unchanged.
C29_ClearedOnlyByTrackedSession ==
    [][\A sid \in 1..Len(sessions) :
          Resolves(sid) /\ currentCrawl # NoCrawl /\ currentCrawl.sid # sid
             => currentCrawl' = currentCrawl]_vars


\* C30: in a crawl session at most one fetch is in flight at any time:
\* the workers started after the first one found the queue empty and
\* returned, so only the first worker ever fetches, one page after the
\* other, and never more than MAX_CONCURRENT workers are active.
C30_OneFetchInFlight ==
    \A sid \in 1..Len(sessions) :
        /\ Cardinality(InFlight(sessions[sid])) <= 1
        /\ InFlight(sessions[sid]) \subseteq {1}
        /\ sessions[sid].active = Cardinality(InFlight(sessions[sid]))
        /\ sessions[sid].active <= MAX_CONCURRENT

\* the first worker fetches a linked page while another link waits in the
\* queue and no other worker takes it
C30_Witness ==
    \E sid \in 1..Len(sessions) :
        /\ sessions[sid].pagesThisSession >= 1
        /\ sessions[sid].fetching[1] \notin {NoUrl, sessions[sid].seed}
        /\ Len(sessions[sid].queue) >= 1


\* the page count a session resolves with: index.size of its scope
resolvedPages(pi, s) == Cardinality(IndexOf(pi, s.scopeKey))

\* session s has not fetched, holds nothing in its queue and is resolved
ResolvedUntouched(s) ==
    /\ s.resolved
    /\ s.fetched = {}
    /\ s.visited = {}
    /\ s.queue = <<>>
    /\ s.active = 0
    /\ s.pagesThisSession = 0
    /\ InFlight(s) = {}

\* C31: a crawl session whose seed URL is already in its scope's page map
\* performs no fetch, enqueues nothing, leaves the page map unchanged and
\* resolves at once with the existing page count; it stays that way in
\* every later step, so it never explores the links of the pages that an
\* earlier session indexed.
C31_IndexedSeedResolvesAtOnce ==
    [][/\ \A sid \in Len(sessions) + 1..Len(sessions') :
             sessions'[sid].seed
                \in IndexOf(pageIndex, sessions'[sid].scopeKey)
                => /\ ResolvedUntouched(sessions'[sid])
                   /\ pageIndex' = pageIndex
                   /\ resolvedPages(pageIndex', sessions'[sid])
                         = Cardinality(IndexOf(pageIndex,
                                               sessions'[sid].scopeKey))
       /\ \A sid \in 1..Len(sessions) :
             ResolvedUntouched(sessions[sid])
                => sessions'[sid] = sessions[sid]]_vars

\* a start request for a seed that an earlier session indexed has just
\* created a session that resolved without a fetch
C31_Witness ==
    /\ event.type = "CRAWL_START"
    /\ event.reply.started
    /\ Len(sessions) >= 2
    /\ ResolvedUntouched(sessions[Len(sessions)])
    /\ sessions[Len(sessions)].seed
          \in IndexOf(pageIndex, sessions[Len(sessions)].scopeKey)
    /\ \E sid \in 1..Len(sessions) - 1 :
          /\ sessions[sid].seed = sessions[Len(sessions)].seed
          /\ sessions[sid].pagesThisSession >= 1


\* the query occurs in the entry's text as a contiguous substring
IsSubstringMatch(q, item) == indexOf(LoweredText(item), q) >= 0
\* the query's characters occur in order in the entry's text, but the query
\* itself does not occur in it
IsSubsequenceOnly(q, item) ==
    /\ indexOf(LoweredText(item), q) < 0
    /\ matchedInOrder(LoweredText(item), q, 0) = Len(q)
SameBase(a, b) == isHeadingLevel(a.level) = isHeadingLevel(b.level)
\* the last position at which a substring match is not outscored by a
\* subsequence match
LastRankedPosition == 30

\* C32 as stated: for entries with the same structural base, an entry that
\* contains the query as a contiguous substring, at any position, never
\* scores lower than an entry that matches it only as a non-contiguous
\* subsequence.
C32_AsStated ==
    (/\ probe.applied
     /\ probe.query # <<>>
     /\ SameBase(probe.a, probe.b)
     /\ IsSubstringMatch(probe.query, probe.a)
     /\ IsSubsequenceOnly(probe.query, probe.b))
    => probe.scoreA >= probe.scoreB

\* C32, amended: for entries with the same structural base, a substring
\* match at position 30 or earlier never scores lower than a
\* subsequence-only match; a substring match at a later position scores
\* strictly lower than it.
C32_SubstringOverSubsequence ==
    (/\ probe.applied
     /\ probe.query # <<>>
     /\ SameBase(probe.a, probe.b)
     /\ IsSubstringMatch(probe.query, probe.a)
     /\ IsSubsequenceOnly(probe.query, probe.b))
    => IF MatchPosition(probe.query, probe.a) <= LastRankedPosition
       THEN probe.scoreA >= probe.scoreB
       ELSE probe.scoreA < probe.scoreB

\* a substring match at position 30 ties with a subsequence-only match
C32_Witness ==
    /\ probe.applied
    /\ probe.query # <<>>
    /\ probe.a.level = probe.b.level
    /\ MatchPosition(probe.query, probe.a) = LastRankedPosition
    /\ IsSubsequenceOnly(probe.query, probe.b)
    /\ probe.scoreA = probe.scoreB


\* the popup has just rendered a suggestion list
Rendered == search.opened /\ search.step.type = "render"

\* C33: in the site-mode popup the rendered suggestion list belongs to the
\* most recently submitted query: whenever a list is rendered, by runSearch
\* or by a crawl poll, it is rendered for the query submitted last and each
\* of its items answers that query, whatever the order of the answers.
C33_RenderedForLastQuery ==
    Rendered =>
        /\ search.rendered = search.lastQuery
        /\ \A k \in 1..Len(popup) : popup[k].query = search.lastQuery


\* C34: the popup and the background derive the same scope key:
\* computeScopeKey(url) equals makeScopeKey(url) for every URL text, both
\* being null exactly when the text does not parse, so the key that the
\* popup puts into CRAWL_STATUS and CRAWL_SEARCH is the key of the page map
\* that CRAWL_START for the same tab URL fills.
C34_PopupKeyIsBackgroundKey ==
    probe.applied =>
        /\ probe.popupKey = probe.backgroundKey
        /\ probe.popupKey = NullKey <=> ~parses(probe.u)
        /\ parses(probe.u)
            => withScope(<<>>, probe.backgroundKey)
                  = (probe.popupKey :> {})

\* both keys were made for a URL whose path has two segments
C34_Witness ==
    /\ probe.applied
    /\ probe.u = Url("h1", <<"/", "a", "/", "|">>)
    /\ probe.popupKey = <<"h1", "|", "/", "a", "/">>
    /\ probe.backgroundKey = probe.popupKey


\* uids of the elements that a document of JumpSpec can hold
HighlightUids == 1..(MaxElems + MaxEdits)
\* the element with this uid is in the document and carries the class
Highlighted(uid) ==
    \E i \in 1..Len(document[1]) :
        document[1][i].uid = uid /\ document[1][i].highlighted
\* a timer of highlight is pending for every element that carries the class
TimerPendingForHighlight ==
    \A i \in 1..Len(document[1]) :
        document[1][i].highlighted
            => \E k \in 1..Len(timers[1]) :
                  timers[1][k] = document[1][i].uid
\* a successful scrollToId has put the class on its target
TargetHighlighted ==
    (ixEvent.type = "PAGE_JUMP_SCROLL_TO" /\ ixEvent.ok)
        => Highlighted(ixEvent.target)

\* C35: every successful scrollToId puts the highlight class on its target
\* and the class is eventually removed: whatever scrollToId calls were
\* made, also repeated ones on an element that is still highlighted, every
\* highlighted element has a pending timer, once all pending timers have
\* fired no element carries the class, and a highlighted element
\* eventually is without the class.
C35_HighlightRemoved ==
    /\ [](TargetHighlighted /\ TimerPendingForHighlight)
    /\ [](timers[1] = <<>> => \A uid \in HighlightUids : ~Highlighted(uid))
    /\ \A uid \in HighlightUids : Highlighted(uid) ~> ~Highlighted(uid)

\* an element was scrolled to again while it was highlighted: two timers
\* are pending for it
C35_Witness ==
    /\ ixEvent.type = "PAGE_JUMP_SCROLL_TO"
    /\ ixEvent.ok
    /\ Highlighted(ixEvent.target)
    /\ Len(timers[1]) = 2
    /\ timers[1][1] = ixEvent.target
    /\ timers[1][2] = ixEvent.target
====
